---------------------------- MODULE Spec2Model ----------------------------
(***************************************************************************)
(* A model of nopkg: the static analyzer (analysis.py: analyze_module,     *)
(* analyze_package), the usage-example generator (generate_usage_examples, *)
(* generate_package_usage_examples, _suggest_arg_value) and the installer  *)
(* (core.py, driven by cli.py).  Python strings are TLA+ strings, Python   *)
(* lists are sequences, Python dicts are records or functions.             *)
(***************************************************************************)
EXTENDS Integers, Sequences, FiniteSets, TLC

VARIABLES
    \* _suggest_arg_value: the call in progress
    sgPc,        \* "idle" | "once" | "twice"
    sgArg,       \* the parameter name passed
    sgFirst,     \* the literal returned by the first evaluation
    sgSecond,    \* the literal returned by the second evaluation
    \* generate_usage_examples: the call in progress
    gnPc,        \* "ready" | "done"
    gnName,      \* module_name: the subject of the examples
    gnAnalysis,  \* analysis: the report passed
    gnExamples,  \* the list of lines returned
    \* analyze_module / analyze_package: the call in progress
    anPc,        \* "ready" | "done"
    anPath,      \* the path passed: what the file system holds there
    anCall,      \* "analyze_module" | "analyze_package": the function called
    anResult,    \* [raised, report]: the exception that reached the caller ("" for none)
                 \* and the report returned
    \* the installer: the file system and the registry file it works on
    srcFiles,    \* source path -> contents of the user's source file ("" when absent)
    site,        \* file name -> contents: the files of the site-packages directory
    registry,    \* the lines of ~/.nopkg/registry.txt
    last,        \* the last command or call: its arguments, the state before, its result
    \* two processes on the same site-packages and registry file
    procs        \* process -> [task, pc, entries, success]: what it runs, where it is,
                 \* the registry lines it holds in memory, whether it returned success

sgVars == <<sgPc, sgArg, sgFirst, sgSecond>>
gnVars == <<gnPc, gnName, gnAnalysis, gnExamples>>
anVars == <<anPc, anPath, anCall, anResult>>
inVars == <<srcFiles, site, registry, last>>
rcVars == <<procs>>
vars == <<sgVars, gnVars, anVars, inVars, rcVars>>

\* Bounds of the checked inputs
MaxParts == 2      \* fragments concatenated into a parameter name
MaxFuncs == 7      \* functions in a report
MaxClasses == 5    \* classes in a report
MaxVars == 7       \* variables in a package report
MaxModules == 7    \* submodules in a package report
MaxBody == 2       \* top-level statements of an analyzed module
MaxInitBody == 3   \* top-level statements of an analyzed __init__.py
MaxSubmodules == 3 \* directory entries beside __init__.py
MaxRegistry == 2   \* lines of the registry file

-----------------------------------------------------------------------------
(* Python str operations *)

\* w in s
Contains(s, w) ==
    \E i \in 1..(Len(s) - Len(w) + 1) : SubSeq(s, i, i + Len(w) - 1) = w

\* s.startswith(p)
StartsWith(s, p) == Len(p) <= Len(s) /\ SubSeq(s, 1, Len(p)) = p

\* s.endswith(p)
EndsWith(s, p) == Len(p) <= Len(s) /\ SubSeq(s, Len(s) - Len(p) + 1, Len(s)) = p

\* any(word in s for word in words)
AnyIn(s, words) == \E w \in words : Contains(s, w)

\* s.endswith((p1, p2, ...))
EndsWithAny(s, ps) == \E p \in ps : EndsWith(s, p)

\* s.replace(old, new) for a non-empty old: leftmost non-overlapping matches
RECURSIVE Replace(_, _, _)
Replace(s, old, new) ==
    IF Len(s) < Len(old) \/ Len(old) = 0 THEN s
    ELSE IF SubSeq(s, 1, Len(old)) = old
         THEN new \o Replace(SubSeq(s, Len(old) + 1, Len(s)), old, new)
         ELSE SubSeq(s, 1, 1) \o Replace(SubSeq(s, 2, Len(s)), old, new)

UpperChars == <<"A", "B", "C", "D", "E", "F", "G", "H", "I", "J", "K", "L", "M",
                "N", "O", "P", "Q", "R", "S", "T", "U", "V", "W", "X", "Y", "Z">>

LowerChars == <<"a", "b", "c", "d", "e", "f", "g", "h", "i", "j", "k", "l", "m",
                "n", "o", "p", "q", "r", "s", "t", "u", "v", "w", "x", "y", "z">>

\* c.isupper() for one character
IsUpperChar(c) == \E i \in 1..Len(UpperChars) : UpperChars[i] = c

\* c.islower() for one character
IsLowerChar(c) == \E i \in 1..Len(LowerChars) : LowerChars[i] = c

\* c.lower() for one character
LowerChar(c) ==
    IF IsUpperChar(c)
    THEN LowerChars[CHOOSE i \in 1..Len(UpperChars) : UpperChars[i] = c]
    ELSE c

\* s.lower()
RECURSIVE Lower(_)
Lower(s) ==
    IF s = "" THEN ""
    ELSE LowerChar(SubSeq(s, 1, 1)) \o Lower(SubSeq(s, 2, Len(s)))

\* s.islower(): at least one cased character and no uppercase one
IsLower(s) ==
    /\ \E i \in 1..Len(s) : IsLowerChar(SubSeq(s, i, i))
    /\ \A i \in 1..Len(s) : ~IsUpperChar(SubSeq(s, i, i))

\* sep.join(parts)
RECURSIVE Join(_, _)
Join(sep, parts) ==
    IF parts = <<>> THEN ""
    ELSE IF Len(parts) = 1 THEN parts[1]
    ELSE parts[1] \o sep \o Join(sep, Tail(parts))

\* seq[:n]
Take(seq, n) == SubSeq(seq, 1, IF n < Len(seq) THEN n ELSE Len(seq))

\* seq[n:]
Drop(seq, n) == SubSeq(seq, n + 1, Len(seq))

-----------------------------------------------------------------------------
(* analysis.py: _suggest_arg_value *)

\* The ordered rule table of _suggest_arg_value on the lower-cased name al and
\* the marker-stripped name a: the first rule that matches decides.
SuggestRules(a, al) ==
    IF AnyIn(al, {"email", "mail", "to_address", "from_address"}) THEN "\"user@example.com\""
    ELSE IF Contains(al, "address") THEN "\"123 Main St\""
    ELSE IF AnyIn(al, {"name", "username", "user"}) THEN "\"alice\""
    ELSE IF AnyIn(al, {"title", "heading", "label"}) THEN "\"My Title\""
    ELSE IF AnyIn(al, {"subject"}) THEN "\"Important Message\""
    ELSE IF AnyIn(al, {"body", "text", "string", "msg", "content"}) THEN "\"hello world\""
    ELSE IF Contains(al, "message") /\ ~Contains(al, "messages") THEN "\"hello world\""
    ELSE IF AnyIn(al, {"path", "filepath", "filename", "file"}) THEN "\"data.txt\""
    ELSE IF AnyIn(al, {"url", "uri", "link", "endpoint"}) THEN "\"https://api.example.com\""
    ELSE IF AnyIn(al, {"api_key", "token"}) /\ ~Contains(al, "max") THEN "\"sk-abc123\""
    ELSE IF Contains(al, "key") /\ ~Contains(al, "max") /\ ~Contains(al, "api") THEN "\"key123\""
    ELSE IF Contains(al, "id") THEN "\"id_123\""
    ELSE IF AnyIn(al, {"method", "mode", "type", "format", "style"}) THEN "\"default\""
    ELSE IF AnyIn(al, {"model"}) THEN "\"gpt-4\""
    ELSE IF AnyIn(al, {"password", "secret"}) THEN "\"secure_pass123\""
    ELSE IF AnyIn(al, {"base_url"}) THEN "\"https://api.example.com\""
    ELSE IF AnyIn(al, {"messages"}) THEN "[{\"role\": \"user\", \"content\": \"hello\"}]"
    ELSE IF AnyIn(al, {"headers", "header"}) THEN "{\"Content-Type\": \"application/json\"}"
    ELSE IF AnyIn(al, {"attachments", "files"}) THEN "[\"file1.txt\", \"file2.pdf\"]"
    ELSE IF AnyIn(al, {"cc", "bcc"}) THEN "[\"user@example.com\"]"
    ELSE IF AnyIn(al, {"params", "parameters"}) THEN "{\"key\": \"value\"}"
    ELSE IF AnyIn(al, {"tags", "labels"}) THEN "[\"tag1\", \"tag2\"]"
    ELSE IF Contains(al, "max_tokens") \/ Contains(al, "max_token") THEN "1000"
    ELSE IF Contains(al, "top_p") THEN "0.9"
    ELSE IF AnyIn(al, {"temperature", "temp"}) THEN "0.7"
    ELSE IF AnyIn(al, {"threshold"}) THEN "0.5"
    ELSE IF AnyIn(al, {"timeout", "delay"}) THEN "30"
    ELSE IF AnyIn(al, {"window", "window_size"}) THEN "5"
    ELSE IF AnyIn(al, {"port"}) THEN "8080"
    ELSE IF AnyIn(al, {"batch_size", "batch"}) THEN "32"
    ELSE IF AnyIn(al, {"epoch"}) THEN "10"
    ELSE IF AnyIn(al, {"learning_rate", "lr"}) THEN "0.001"
    ELSE IF AnyIn(al, {"count", "num", "number", "n"}) THEN "10"
    ELSE IF AnyIn(al, {"page", "offset"}) THEN "1"
    ELSE IF AnyIn(al, {"size", "length"}) THEN "100"
    ELSE IF AnyIn(al, {"width"}) THEN "800"
    ELSE IF AnyIn(al, {"height"}) THEN "600"
    ELSE IF AnyIn(al, {"price", "cost"}) THEN "9.99"
    ELSE IF AnyIn(al, {"age"}) THEN "25"
    ELSE IF AnyIn(al, {"year"}) THEN "2024"
    ELSE IF AnyIn(al, {"rating", "score"}) THEN "4.5"
    ELSE IF AnyIn(al, {"percent", "percentage"}) THEN "75"
    ELSE IF AnyIn(al, {"distance"}) THEN "100.0"
    ELSE IF AnyIn(al, {"index", "idx", "position", "pos"}) THEN "0"
    ELSE IF AnyIn(al, {"max", "limit"}) THEN "100"
    ELSE IF AnyIn(al, {"min", "minimum"}) THEN "0"
    ELSE IF AnyIn(al, {"quantity", "qty", "amount"}) THEN "5"
    ELSE IF AnyIn(al, {"value", "val"}) THEN "100"
    ELSE IF AnyIn(al, {"enable", "enabled", "flag", "verbose", "debug", "stream"}) THEN "True"
    ELSE IF AnyIn(al, {"normalize", "strict", "async"}) THEN "True"
    ELSE IF AnyIn(al, {"list", "items", "values"}) THEN "[1, 2, 3]"
    ELSE IF AnyIn(al, {"data"}) THEN "{\"field\": \"value\"}"
    ELSE IF AnyIn(al, {"dict", "mapping", "config", "options", "settings"}) THEN "{\"option\": \"value\"}"
    ELSE IF AnyIn(al, {"array", "numbers"}) THEN "[1, 2, 3]"
    ELSE IF al \in {"a", "b", "x", "y"} THEN "10"
    ELSE IF al \in {"i", "j", "k"} THEN "0"
    ELSE IF al \in {"s", "str"} THEN "\"text\""
    \* arg_lower in ('n'): ('n') is the string 'n', so this is a substring test
    ELSE IF Contains("n", al) THEN "5"
    ELSE IF EndsWithAny(al, {"_str", "_text", "_name"}) THEN "\"text\""
    ELSE IF EndsWithAny(al, {"_int", "_num", "_count"}) THEN "10"
    ELSE IF EndsWithAny(al, {"_bool", "_flag"}) THEN "True"
    ELSE IF EndsWithAny(al, {"_list", "_array", "_items"}) THEN "[]"
    ELSE IF EndsWithAny(al, {"_dict", "_map", "_obj"}) THEN "{}"
    ELSE IF EndsWith(al, "_id") THEN "\"id_123\""
    ELSE IF EndsWith(al, "_path") THEN "\"path/to/file\""
    ELSE IF EndsWith(al, "_url") THEN "\"https://example.com\""
    ELSE IF Contains(al, "_") \/ (a # "" /\ IsUpperChar(SubSeq(a, 1, 1))) THEN "\"value\""
    ELSE "1"

\* _suggest_arg_value without its last line: a name no rule matches gets nothing
SuggestArgValueNoFallback(arg) ==
    LET a == Replace(arg, "=...", "")
        r == SuggestRules(a, Lower(a))
    IN IF r = "1" /\ ~AnyIn(Lower(a), {"page", "offset"}) THEN "" ELSE r

\* _suggest_arg_value(arg)
SuggestArgValue(arg) ==
    LET a == Replace(arg, "=...", "")
    IN SuggestRules(a, Lower(a))

-----------------------------------------------------------------------------
(* analysis.py: the example generator *)

\* [x for xs in seqs for x in xs]
RECURSIVE Flatten(_)
Flatten(seqs) ==
    IF Len(seqs) = 0 THEN <<>> ELSE seqs[1] \o Flatten(Tail(seqs))

\* [item['name'] for item in items]
NamesOf(items) == [i \in 1..Len(items) |-> items[i].name]

\* characters str.strip() removes
Whitespace == {" ", "\t", "\n", "\r", "\f"}

\* s.strip()
RECURSIVE Strip(_)
Strip(s) ==
    IF s = "" THEN ""
    ELSE IF SubSeq(s, 1, 1) \in Whitespace THEN Strip(SubSeq(s, 2, Len(s)))
    ELSE IF SubSeq(s, Len(s), Len(s)) \in Whitespace THEN Strip(SubSeq(s, 1, Len(s) - 1))
    ELSE s

\* s.split('\n')[0]
RECURSIVE FirstLine(_)
FirstLine(s) ==
    IF s = "" \/ SubSeq(s, 1, 1) = "\n" THEN ""
    ELSE SubSeq(s, 1, 1) \o FirstLine(SubSeq(s, 2, Len(s)))

\* not name.startswith('_')
IsPublic(name) == ~StartsWith(name, "_")

\* [x for x in items if not x['name'].startswith('_')]
PublicItems(items) == SelectSeq(items, LAMBDA x : IsPublic(x.name))

\* list.index(x): the first position holding a value equal to x (0-based)
IndexOf(seq, x) == (CHOOSE i \in 1..Len(seq) : seq[i] = x /\ \A j \in 1..(i - 1) : seq[j] # x) - 1

\* the continuation indent of a wrapped import
WrapIndent == "                            "

\* ArgValue rendering every parameter in keyword form
ArgValueAlwaysKeyword(arg) ==
    Replace(arg, "=...", "") \o "=" \o SuggestArgValue(arg)

\* one argument of the example call: keyword form for a parameter with a default
ArgValue(arg) ==
    LET suggested == SuggestArgValue(arg)
    IN IF Contains(arg, "=...")
       THEN Replace(arg, "=...", "") \o "=" \o suggested
       ELSE suggested

\* ', '.join(_suggest_arg_value(arg) for arg in args[:n])
SuggestedArgs(args, n) ==
    Join(", ", [i \in 1..Len(Take(args, n)) |-> SuggestArgValue(args[i])])

\* the optional "# name: first docstring line" comment of a function
DocComment(func) ==
    IF "docstring" \in DOMAIN func /\ func.docstring # ""
    THEN LET docstring == Strip(FirstLine(func.docstring))
         IN IF docstring # "" THEN <<"# " \o func.name \o ": " \o docstring>> ELSE <<>>
    ELSE <<>>

\* the lines of one detailed function with the call line not cut at 5 arguments
FuncDetailAllArgs(prefix, func) ==
    DocComment(func)
    \o (IF func.args # <<>>
        THEN << prefix \o func.name \o "(" \o Join(", ", func.args) \o ")",
                prefix \o func.name \o "("
                    \o Join(", ", [i \in 1..Len(func.args) |-> ArgValue(func.args[i])])
                    \o ")" >>
        ELSE << prefix \o func.name \o "()" >>)
    \o <<"">>

\* the lines of one detailed function; prefix is "" (module) or "<package>."
FuncDetail(prefix, func) ==
    DocComment(func)
    \o (IF func.args # <<>>
        THEN << prefix \o func.name \o "(" \o Join(", ", func.args) \o ")",
                prefix \o func.name \o "("
                    \o Join(", ", [i \in 1..Len(Take(func.args, 5)) |-> ArgValue(func.args[i])])
                    \o ")" >>
        ELSE << prefix \o func.name \o "()" >>)
    \o <<"">>

\* cls.get('methods', []) filtered to the public ones
PublicMethods(cls) ==
    IF "methods" \in DOMAIN cls THEN PublicItems(cls.methods) ELSE <<>>

\* obj.method(...) for one method, suggesting at most n arguments
MethodCall(method, n) ==
    IF method.args # <<>>
    THEN "obj." \o method.name \o "(" \o SuggestedArgs(method.args, n) \o ")"
    ELSE "obj." \o method.name \o "()"

\* module path: the "from m import f, ..." lines of the functions
ModuleFuncImports(module_name, public_functions) ==
    IF public_functions # <<>>
    THEN LET func_names == NamesOf(Take(public_functions, 5))
         IN (IF Len(func_names) = 1
             THEN << "from " \o module_name \o " import " \o func_names[1] >>
             ELSE IF Len(func_names) <= 3
             THEN << "from " \o module_name \o " import " \o Join(", ", func_names) >>
             ELSE << "from " \o module_name \o " import (" \o Join(", ", Take(func_names, 3)) \o ",",
                     WrapIndent \o Join(", ", Drop(func_names, 3)) \o ")" >>)
            \o <<"">>
    ELSE <<>>

\* module path: the "from m import C, ..." line of the classes
ModuleClassImports(module_name, public_classes) ==
    IF public_classes # <<>>
    THEN LET class_names == NamesOf(Take(public_classes, 3))
         IN (IF Len(class_names) = 1
             THEN << "from " \o module_name \o " import " \o class_names[1] >>
             ELSE << "from " \o module_name \o " import " \o Join(", ", class_names) >>)
            \o <<"">>
    ELSE <<>>

\* module path: the lines of one class of public_classes[:3]
ModuleClassDetail(cls, public_classes) ==
    LET public_methods == PublicMethods(cls)
        shown == Take(public_methods, 2)
    IN << "obj = " \o cls.name \o "()" >>
       \o [i \in 1..Len(shown) |-> MethodCall(shown[i], 3)]
       \o (IF IndexOf(public_classes, cls) < Len(public_classes) - 1 THEN <<"">> ELSE <<>>)

\* module path: the "# Classes:" section
ModuleClassSection(public_classes) ==
    IF public_classes # <<>>
    THEN <<"# Classes:">>
         \o Flatten([i \in 1..Len(Take(public_classes, 3)) |->
                        ModuleClassDetail(public_classes[i], public_classes)])
    ELSE <<>>

\* generate_usage_examples on a report without 'modules'
GenerateModuleUsage(module_name, analysis) ==
    LET public_functions == PublicItems(analysis.functions)
        public_classes == PublicItems(analysis.classes)
    IN << "import " \o module_name, "" >>
       \o ModuleFuncImports(module_name, public_functions)
       \o ModuleClassImports(module_name, public_classes)
       \o Flatten([i \in 1..Len(Take(public_functions, 5)) |-> FuncDetail("", public_functions[i])])
       \o ModuleClassSection(public_classes)

\* package path: the names offered by the combined import line
PackageImportable(public_functions, public_classes, public_variables) ==
    NamesOf(Take(public_functions, 3)) \o NamesOf(Take(public_classes, 2)) \o Take(public_variables, 3)

\* package path: the combined "from pkg import ..." line(s)
PackageImports(package_name, importable_items) ==
    IF importable_items # <<>>
    THEN (IF Len(importable_items) = 1
          THEN << "from " \o package_name \o " import " \o importable_items[1] >>
          ELSE IF Len(importable_items) <= 3
          THEN << "from " \o package_name \o " import " \o Join(", ", importable_items) >>
          ELSE << "from " \o package_name \o " import (" \o Join(", ", Take(importable_items, 2)) \o ",",
                  WrapIndent \o Join(", ", Drop(importable_items, 2)) \o ")" >>)
         \o <<"">>
    ELSE <<>>

\* details.get(key): the list under key, or nothing
DetailsGet(details, key) == IF key \in DOMAIN details THEN details[key] ELSE <<>>

\* package path: the function lines of one submodule
SubmoduleFuncLines(package_name, mod, details) ==
    LET functions == DetailsGet(details, "functions")
    IN IF functions # <<>>
       THEN LET func_names == NamesOf(Take(functions, 3))
                first_func == functions[1]
            IN << "from " \o package_name \o "." \o mod \o " import " \o Join(", ", func_names),
                  IF first_func.args # <<>>
                  THEN mod \o "." \o first_func.name \o "(" \o SuggestedArgs(first_func.args, 2) \o ")"
                  ELSE mod \o "." \o first_func.name \o "()" >>
       ELSE <<>>

\* package path: the class lines of one submodule
SubmoduleClassLines(package_name, mod, details) ==
    LET classes == DetailsGet(details, "classes")
    IN IF classes # <<>>
       THEN LET class_names == NamesOf(Take(classes, 2))
                first_class == classes[1]
            IN << "from " \o package_name \o "." \o mod \o " import " \o Join(", ", class_names),
                  "obj = " \o first_class.name \o "()" >>
       ELSE <<>>

\* package path: the section of one submodule of public_modules[:5]
SubmoduleSection(package_name, mod, submodule_details) ==
    << "# " \o package_name \o "." \o mod \o ":",
       "from " \o package_name \o " import " \o mod >>
    \o (IF mod \in DOMAIN submodule_details
        THEN SubmoduleFuncLines(package_name, mod, submodule_details[mod])
             \o SubmoduleClassLines(package_name, mod, submodule_details[mod])
        ELSE <<>>)
    \o <<"">>

\* package path: one line of the "# Exported items:" section
ExportedLine(package_name, var) ==
    IF IsLower(var) \/ Contains(var, "_")
    THEN package_name \o "." \o var \o "(...)"
    ELSE package_name \o "." \o var

\* package path: the "# Exported items:" section
ExportedSection(package_name, public_variables) ==
    IF public_variables # <<>>
    THEN <<"# Exported items:">>
         \o [i \in 1..Len(Take(public_variables, 5)) |-> ExportedLine(package_name, public_variables[i])]
         \o <<"">>
    ELSE <<>>

\* package path: the lines of one class of public_classes[:3]
PackageClassDetail(package_name, cls) ==
    LET public_methods == PublicMethods(cls)
    IN << "obj = " \o package_name \o "." \o cls.name \o "()" >>
       \o (IF public_methods # <<>> THEN << MethodCall(public_methods[1], 2) >> ELSE <<>>)
       \o <<"">>

\* the "# Classes:" section of the package path detailing every class
PackageClassSectionUncapped(package_name, public_classes) ==
    IF public_classes # <<>>
    THEN <<"# Classes:">>
         \o Flatten([i \in 1..Len(public_classes) |->
                        PackageClassDetail(package_name, public_classes[i])])
    ELSE <<>>

\* package path: the "# Classes:" section
PackageClassSection(package_name, public_classes) ==
    IF public_classes # <<>>
    THEN <<"# Classes:">>
         \o Flatten([i \in 1..Len(Take(public_classes, 3)) |->
                        PackageClassDetail(package_name, public_classes[i])])
    ELSE <<>>

\* while examples and examples[-1] == "": examples.pop()
RECURSIVE StripTrailingBlank(_)
StripTrailingBlank(examples) ==
    IF examples # <<>> /\ examples[Len(examples)] = ""
    THEN StripTrailingBlank(SubSeq(examples, 1, Len(examples) - 1))
    ELSE examples

\* generate_package_usage_examples with the base import emitted only beside
\* a from-import of importable items
GeneratePackageUsageNoBaseImport(package_name, analysis) ==
    LET public_modules == SelectSeq(analysis.modules, IsPublic)
        public_functions == PublicItems(analysis.functions)
        public_classes == PublicItems(analysis.classes)
        public_variables ==
            IF "variables" \in DOMAIN analysis THEN SelectSeq(analysis.variables, IsPublic) ELSE <<>>
        submodule_details ==
            IF "submodule_details" \in DOMAIN analysis THEN analysis.submodule_details ELSE <<>>
        importable_items == PackageImportable(public_functions, public_classes, public_variables)
    IN StripTrailingBlank(
         (IF importable_items # <<>> THEN << "import " \o package_name, "" >> ELSE <<>>)
         \o PackageImports(package_name, importable_items)
         \o Flatten([i \in 1..Len(Take(public_modules, 5)) |->
                        SubmoduleSection(package_name, public_modules[i], submodule_details)])
         \o Flatten([i \in 1..Len(Take(public_functions, 3)) |->
                        FuncDetail(package_name \o ".", public_functions[i])])
         \o ExportedSection(package_name, public_variables)
         \o PackageClassSection(package_name, public_classes))

\* generate_package_usage_examples
GeneratePackageUsage(package_name, analysis) ==
    LET public_modules == SelectSeq(analysis.modules, IsPublic)
        public_functions == PublicItems(analysis.functions)
        public_classes == PublicItems(analysis.classes)
        public_variables ==
            IF "variables" \in DOMAIN analysis THEN SelectSeq(analysis.variables, IsPublic) ELSE <<>>
        submodule_details ==
            IF "submodule_details" \in DOMAIN analysis THEN analysis.submodule_details ELSE <<>>
    IN StripTrailingBlank(
         << "import " \o package_name, "" >>
         \o PackageImports(package_name,
                           PackageImportable(public_functions, public_classes, public_variables))
         \o Flatten([i \in 1..Len(Take(public_modules, 5)) |->
                        SubmoduleSection(package_name, public_modules[i], submodule_details)])
         \o Flatten([i \in 1..Len(Take(public_functions, 3)) |->
                        FuncDetail(package_name \o ".", public_functions[i])])
         \o ExportedSection(package_name, public_variables)
         \o PackageClassSection(package_name, public_classes))

\* generate_usage_examples: a report with 'modules' takes the package path
GenerateUsageExamples(module_name, analysis) ==
    IF "modules" \in DOMAIN analysis
    THEN GeneratePackageUsage(module_name, analysis)
    ELSE GenerateModuleUsage(module_name, analysis)

-----------------------------------------------------------------------------
(* analysis.py: the analyzer.  A syntax tree is what ast.parse returns: a  *)
(* list of statement nodes, each a record with its type and fields.        *)

EmptyReport == [functions |-> <<>>, classes |-> <<>>, variables |-> <<>>]

\* every node of the tree below body, at any depth (what ast.walk visits)
RECURSIVE Walk(_)
Walk(body) ==
    Flatten([i \in 1..Len(body) |->
               <<body[i]>> \o (IF "body" \in DOMAIN body[i] THEN Walk(body[i].body) ELSE <<>>)])

EmptyPackageReport ==
    [modules |-> <<>>, functions |-> <<>>, classes |-> <<>>, variables |-> <<>>,
     submodule_details |-> <<>>]

\* what a call hands its caller
Returned(report) == [raised |-> "", report |-> report]
Raised(exc) == [raised |-> exc, report |-> <<>>]

\* except (SyntaxError, UnicodeDecodeError, OSError)
CaughtErrors == {"SyntaxError", "UnicodeDecodeError", "OSError"}

\* [arg.arg for arg in node.args.args if arg.arg != 'self']
ArgsWithoutSelf(node) == SelectSeq(node.args, LAMBDA a : a # "self")

\* args[:-num_defaults] + [f"{arg}=..." for arg in args[-num_defaults:]] if num_defaults else args
FormatArgs(args, num_defaults) ==
    IF num_defaults = 0 THEN args
    ELSE LET k == IF num_defaults >= Len(args) THEN 0 ELSE Len(args) - num_defaults
         IN Take(args, k) \o [i \in 1..(Len(args) - k) |-> args[k + i] \o "=..."]

\* the descriptor of a top-level function
FunctionEntry(node) ==
    [name |-> node.name,
     args |-> FormatArgs(ArgsWithoutSelf(node), node.defaults),
     docstring |-> node.doc]

\* the descriptors of the public methods found directly in a class body
MethodEntries(class_body) ==
    LET found == SelectSeq(class_body,
                           LAMBDA n : n.type = "FunctionDef" /\ IsPublic(n.name))
    IN [i \in 1..Len(found) |-> [name |-> found[i].name, args |-> ArgsWithoutSelf(found[i])]]

\* the descriptor of a top-level class
ClassEntry(node) ==
    [name |-> node.name, methods |-> MethodEntries(node.body), docstring |-> node.doc]

\* the names one assignment statement contributes to 'variables'
AssignedNames(node) ==
    LET kept == SelectSeq(node.targets,
                          LAMBDA t : t.type = "Name" /\ IsPublic(t.id) /\ node.value = "Constant")
    IN [i \in 1..Len(kept) |-> kept[i].id]

\* ExtractFunctions over ast.walk(tree): every def at any depth
ExtractFunctionsWalk(body) ==
    LET found == SelectSeq(Walk(body), LAMBDA n : n.type = "FunctionDef" /\ IsPublic(n.name))
    IN [i \in 1..Len(found) |-> FunctionEntry(found[i])]

\* the functions list: one entry per public top-level FunctionDef, in order
ExtractFunctions(body) ==
    LET found == SelectSeq(body, LAMBDA n : n.type = "FunctionDef" /\ IsPublic(n.name))
    IN [i \in 1..Len(found) |-> FunctionEntry(found[i])]

\* the classes list: one entry per public top-level ClassDef, in order
ExtractClasses(body) ==
    LET found == SelectSeq(body, LAMBDA n : n.type = "ClassDef" /\ IsPublic(n.name))
    IN [i \in 1..Len(found) |-> ClassEntry(found[i])]

\* the variables list: the names of the top-level Assign statements, in order
ExtractVariables(body) ==
    Flatten([i \in 1..Len(body) |->
               IF body[i].type = "Assign" THEN AssignedNames(body[i]) ELSE <<>>])

\* the loop of analyze_module over tree.body
ExtractReport(body) ==
    [functions |-> ExtractFunctions(body),
     classes |-> ExtractClasses(body),
     variables |-> ExtractVariables(body)]

\* the outcome of opening, reading and parsing a file: the tree, or the
\* exception open(), read() or ast.parse() raised
ReadAndParse(path) ==
    IF path.kind = "dir" THEN [error |-> "OSError", body |-> <<>>]
    ELSE IF path.read # "ok" THEN [error |-> path.read, body |-> <<>>]
    ELSE IF path.parse # "ok" THEN [error |-> path.parse, body |-> <<>>]
    ELSE [error |-> "", body |-> path.body]

\* analyze_module(file_path)
AnalyzeModule(path) ==
    IF path.kind = "missing" \/ path.suffix # ".py" THEN Returned(EmptyReport)
    ELSE LET parsed == ReadAndParse(path)
         IN IF parsed.error = "" THEN Returned(ExtractReport(parsed.body))
            ELSE IF parsed.error \in CaughtErrors THEN Returned(EmptyReport)
            ELSE Raised(parsed.error)

\* exported_name = alias.asname if alias.asname else alias.name
ExportedName(alias) == IF alias.asname # "" THEN alias.asname ELSE alias.name

\* AddAliases without the test of the exported name's underscore
RECURSIVE AddAliasesAnyAlias(_, _, _, _)
AddAliasesAnyAlias(aliases, functions, classes, variables) ==
    IF aliases = <<>> THEN variables
    ELSE LET alias == aliases[1]
             exported_name == ExportedName(alias)
             add == /\ ~(alias.name = "*" \/ StartsWith(alias.name, "_"))
                    /\ \A i \in 1..Len(functions) : functions[i].name # exported_name
                    /\ \A i \in 1..Len(classes) : classes[i].name # exported_name
                    /\ \A i \in 1..Len(variables) : variables[i] # exported_name
         IN AddAliasesAnyAlias(Tail(aliases), functions, classes,
                               IF add THEN Append(variables, exported_name) ELSE variables)

\* AddAliases without the test that the name is not yet in variables
RECURSIVE AddAliasesNoDedup(_, _, _, _)
AddAliasesNoDedup(aliases, functions, classes, variables) ==
    IF aliases = <<>> THEN variables
    ELSE LET alias == aliases[1]
             exported_name == ExportedName(alias)
             add == /\ ~(alias.name = "*" \/ StartsWith(alias.name, "_"))
                    /\ ~StartsWith(exported_name, "_")
                    /\ \A i \in 1..Len(functions) : functions[i].name # exported_name
                    /\ \A i \in 1..Len(classes) : classes[i].name # exported_name
         IN AddAliasesNoDedup(Tail(aliases), functions, classes,
                              IF add THEN Append(variables, exported_name) ELSE variables)

\* the inner loop of analyze_package over the aliases of one from-import
RECURSIVE AddAliases(_, _, _, _)
AddAliases(aliases, functions, classes, variables) ==
    IF aliases = <<>> THEN variables
    ELSE LET alias == aliases[1]
             exported_name == ExportedName(alias)
             skip == alias.name = "*" \/ StartsWith(alias.name, "_")
             add == /\ ~skip
                    /\ ~StartsWith(exported_name, "_")
                    /\ \A i \in 1..Len(functions) : functions[i].name # exported_name
                    /\ \A i \in 1..Len(classes) : classes[i].name # exported_name
                    /\ \A i \in 1..Len(variables) : variables[i] # exported_name
         IN AddAliases(Tail(aliases), functions, classes,
                       IF add THEN Append(variables, exported_name) ELSE variables)

\* the loop of analyze_package over the top-level statements of __init__.py
RECURSIVE AddReExports(_, _, _, _)
AddReExports(body, functions, classes, variables) ==
    IF body = <<>> THEN variables
    ELSE AddReExports(Tail(body), functions, classes,
                      IF body[1].type = "ImportFrom"
                      THEN AddAliases(body[1].names, functions, classes, variables)
                      ELSE variables)

\* py_file.stem of a directory entry
Stem(entry) ==
    IF EndsWith(entry.name, ".py") THEN SubSeq(entry.name, 1, Len(entry.name) - 3) ELSE entry.name

\* package_path.glob('*.py') without __init__.py and the underscore files
SubmoduleEntries(path) ==
    SelectSeq(path.entries,
              LAMBDA e : /\ EndsWith(e.name, ".py")
                         /\ e.name # "__init__.py"
                         /\ ~StartsWith(Stem(e), "_"))

\* (package_path / "__init__.py").exists()
HasInit(path) == \E i \in 1..Len(path.entries) : path.entries[i].name = "__init__.py"

InitFile(path) ==
    path.entries[CHOOSE i \in 1..Len(path.entries) : path.entries[i].name = "__init__.py"].file

\* what submodule_details records of one analyzed submodule
SubmoduleDetails(report) ==
    [functions |-> PublicItems(report.functions), classes |-> PublicItems(report.classes)]

\* analyze_package(package_path)
AnalyzePackage(path) ==
    IF path.kind # "dir" \/ ~HasInit(path) THEN Returned(EmptyPackageReport)
    ELSE LET init_analysis == AnalyzeModule(InitFile(path))
             parsed == ReadAndParse(InitFile(path))
             subs == SubmoduleEntries(path)
             sub_results == [i \in 1..Len(subs) |-> AnalyzeModule(subs[i].file)]
         IN IF init_analysis.raised # "" THEN init_analysis
            ELSE IF parsed.error # "" /\ parsed.error \notin CaughtErrors THEN Raised(parsed.error)
            ELSE IF \E i \in 1..Len(subs) : sub_results[i].raised # ""
            THEN sub_results[CHOOSE i \in 1..Len(subs) :
                                /\ sub_results[i].raised # ""
                                /\ \A j \in 1..(i - 1) : sub_results[j].raised = ""]
            ELSE Returned(
                   [modules |-> [i \in 1..Len(subs) |-> Stem(subs[i])],
                    functions |-> init_analysis.report.functions,
                    classes |-> init_analysis.report.classes,
                    variables |->
                        IF parsed.error = ""
                        THEN AddReExports(parsed.body, init_analysis.report.functions,
                                          init_analysis.report.classes,
                                          init_analysis.report.variables)
                        ELSE init_analysis.report.variables,
                    submodule_details |->
                        [m \in {Stem(subs[i]) : i \in 1..Len(subs)} |->
                            SubmoduleDetails(
                                sub_results[CHOOSE i \in 1..Len(subs) :
                                              /\ Stem(subs[i]) = m
                                              /\ \A j \in (i + 1)..Len(subs) : Stem(subs[j]) # m].report)]])

-----------------------------------------------------------------------------
(* Each specification drives one component; the others are switched off *)

SuggestIdle == sgPc = "off" /\ sgArg = "" /\ sgFirst = "" /\ sgSecond = ""
GenIdle == gnPc = "off" /\ gnName = "" /\ gnAnalysis = <<>> /\ gnExamples = <<>>
AnalyzeIdle == anPc = "off" /\ anPath = <<>> /\ anCall = "" /\ anResult = <<>>

\* what a step of one component leaves alone
InstallIdle == srcFiles = <<>> /\ site = <<>> /\ registry = <<>> /\ last = <<>>
RaceIdle == procs = <<>>
SuggestOnly == UNCHANGED <<gnVars, anVars, inVars, rcVars>>
GenOnly == UNCHANGED <<sgVars, anVars, inVars, rcVars>>
AnalyzeOnly == UNCHANGED <<sgVars, gnVars, inVars, rcVars>>
InstallOnly == UNCHANGED <<sgVars, gnVars, anVars, rcVars>>
RaceOnly == UNCHANGED <<sgVars, gnVars, anVars, srcFiles, last>>

-----------------------------------------------------------------------------
(* Inputs of the suggestion function *)

\* pieces of parameter names: table keywords, the default marker, separators,
\* upper-case letters and letters no rule knows
Fragments == {"n", "name", "max", "key", "id", "_", "X", "api", "=...", "q", "message", "s", "Url"}

RECURSIVE NamesOfParts(_)
NamesOfParts(k) ==
    IF k = 0 THEN {""}
    ELSE NamesOfParts(k - 1) \cup {f \o r : f \in Fragments, r \in NamesOfParts(k - 1)}

ParamNames == NamesOfParts(MaxParts)

\* the keywords each rule of _suggest_arg_value lists (substring and equality
\* rules, in the order of the code) and the literal the rule returns
KeywordRules ==
    <<
      [words |-> {"email", "mail", "to_address", "from_address"}, value |-> "\"user@example.com\""],
      [words |-> {"address"}, value |-> "\"123 Main St\""],
      [words |-> {"name", "username", "user"}, value |-> "\"alice\""],
      [words |-> {"title", "heading", "label"}, value |-> "\"My Title\""],
      [words |-> {"subject"}, value |-> "\"Important Message\""],
      [words |-> {"body", "text", "string", "msg", "content"}, value |-> "\"hello world\""],
      [words |-> {"message"}, value |-> "\"hello world\""],
      [words |-> {"path", "filepath", "filename", "file"}, value |-> "\"data.txt\""],
      [words |-> {"url", "uri", "link", "endpoint"}, value |-> "\"https://api.example.com\""],
      [words |-> {"api_key", "token"}, value |-> "\"sk-abc123\""],
      [words |-> {"key"}, value |-> "\"key123\""],
      [words |-> {"id"}, value |-> "\"id_123\""],
      [words |-> {"method", "mode", "type", "format", "style"}, value |-> "\"default\""],
      [words |-> {"model"}, value |-> "\"gpt-4\""],
      [words |-> {"password", "secret"}, value |-> "\"secure_pass123\""],
      [words |-> {"base_url"}, value |-> "\"https://api.example.com\""],
      [words |-> {"messages"}, value |-> "[{\"role\": \"user\", \"content\": \"hello\"}]"],
      [words |-> {"headers", "header"}, value |-> "{\"Content-Type\": \"application/json\"}"],
      [words |-> {"attachments", "files"}, value |-> "[\"file1.txt\", \"file2.pdf\"]"],
      [words |-> {"cc", "bcc"}, value |-> "[\"user@example.com\"]"],
      [words |-> {"params", "parameters"}, value |-> "{\"key\": \"value\"}"],
      [words |-> {"tags", "labels"}, value |-> "[\"tag1\", \"tag2\"]"],
      [words |-> {"max_tokens", "max_token"}, value |-> "1000"],
      [words |-> {"top_p"}, value |-> "0.9"],
      [words |-> {"temperature", "temp"}, value |-> "0.7"],
      [words |-> {"threshold"}, value |-> "0.5"],
      [words |-> {"timeout", "delay"}, value |-> "30"],
      [words |-> {"window", "window_size"}, value |-> "5"],
      [words |-> {"port"}, value |-> "8080"],
      [words |-> {"batch_size", "batch"}, value |-> "32"],
      [words |-> {"epoch"}, value |-> "10"],
      [words |-> {"learning_rate", "lr"}, value |-> "0.001"],
      [words |-> {"count", "num", "number", "n"}, value |-> "10"],
      [words |-> {"page", "offset"}, value |-> "1"],
      [words |-> {"size", "length"}, value |-> "100"],
      [words |-> {"width"}, value |-> "800"],
      [words |-> {"height"}, value |-> "600"],
      [words |-> {"price", "cost"}, value |-> "9.99"],
      [words |-> {"age"}, value |-> "25"],
      [words |-> {"year"}, value |-> "2024"],
      [words |-> {"rating", "score"}, value |-> "4.5"],
      [words |-> {"percent", "percentage"}, value |-> "75"],
      [words |-> {"distance"}, value |-> "100.0"],
      [words |-> {"index", "idx", "position", "pos"}, value |-> "0"],
      [words |-> {"max", "limit"}, value |-> "100"],
      [words |-> {"min", "minimum"}, value |-> "0"],
      [words |-> {"quantity", "qty", "amount"}, value |-> "5"],
      [words |-> {"value", "val"}, value |-> "100"],
      [words |-> {"enable", "enabled", "flag", "verbose", "debug", "stream"}, value |-> "True"],
      [words |-> {"normalize", "strict", "async"}, value |-> "True"],
      [words |-> {"list", "items", "values"}, value |-> "[1, 2, 3]"],
      [words |-> {"data"}, value |-> "{\"field\": \"value\"}"],
      [words |-> {"dict", "mapping", "config", "options", "settings"}, value |-> "{\"option\": \"value\"}"],
      [words |-> {"array", "numbers"}, value |-> "[1, 2, 3]"],
      [words |-> {"a", "b", "x", "y"}, value |-> "10"],
      [words |-> {"i", "j", "k"}, value |-> "0"],
      [words |-> {"s", "str"}, value |-> "\"text\""],
      [words |-> {"n"}, value |-> "5"],
      [words |-> {"_"}, value |-> "\"value\""]
    >>

\* every keyword some rule lists
Keywords == UNION {KeywordRules[r].words : r \in 1..Len(KeywordRules)}

SuggestInit ==
    /\ sgPc = "idle"
    /\ sgArg = ""
    /\ sgFirst = ""
    /\ sgSecond = ""

\* a caller evaluates _suggest_arg_value(arg)
SuggestCall(arg) ==
    /\ sgPc = "idle"
    /\ sgArg' = arg
    /\ sgFirst' = SuggestArgValue(arg)
    /\ sgPc' = "once"
    /\ UNCHANGED sgSecond
    /\ SuggestOnly

\* the caller evaluates it again on the same name
SuggestAgain ==
    /\ sgPc = "once"
    /\ sgSecond' = SuggestArgValue(sgArg)
    /\ sgPc' = "twice"
    /\ UNCHANGED <<sgArg, sgFirst>>
    /\ SuggestOnly

\* the caller is done with the two literals
SuggestDone ==
    /\ sgPc = "twice"
    /\ sgPc' = "idle"
    /\ sgArg' = ""
    /\ sgFirst' = ""
    /\ sgSecond' = ""
    /\ SuggestOnly

SuggestNext ==
    \/ \E arg \in ParamNames \cup Keywords : SuggestCall(arg)
    \/ SuggestAgain
    \/ SuggestDone

-----------------------------------------------------------------------------
(* Inputs of the generator *)

ArgPool == << <<>>, <<"name">>, <<"count", "verbose=...">>, <<"url", "timeout=...", "data">>,
              <<"x", "y", "user_id", "msg", "n", "Foo=...">>, <<"q">> >>

DocPool == << "Say hello", "", "  Lead line \nmore", "\nsecond line only", "Does things." >>

\* the i-th function descriptor: every fourth has no 'docstring' key, the third is private
FuncAt(i) ==
    LET name == IF i = 3 THEN "_helper" ELSE "func" \o ToString(i)
        args == ArgPool[(i % Len(ArgPool)) + 1]
    IN IF i % 4 = 0
       THEN [name |-> name, args |-> args]
       ELSE [name |-> name, args |-> args, docstring |-> DocPool[(i % Len(DocPool)) + 1]]

\* the j-th method descriptor of a class
MethodAt(j) ==
    [name |-> (IF j = 2 THEN "_private" ELSE "meth" \o ToString(j)), args |-> ArgPool[(j % Len(ArgPool)) + 1]]

\* the i-th class descriptor: the second is private, the fourth has no 'methods' key
ClassAt(i) ==
    LET name == IF i = 2 THEN "_Hidden" ELSE "Cls" \o ToString(i)
        docstring == DocPool[(i % Len(DocPool)) + 1]
    IN IF i = 4
       THEN [name |-> name, docstring |-> docstring]
       ELSE [name |-> name,
             methods |-> [j \in 1..((i + 3) % 5) |-> MethodAt(j)],
             docstring |-> docstring]

VarPool == << "VERSION", "helper", "_secret", "CamelCase", "make_thing", "X" >>

\* the i-th variable name
VarAt(i) == IF i <= Len(VarPool) THEN VarPool[i] ELSE "VAR" \o ToString(i)

\* the i-th submodule name
ModuleAt(i) == IF i = 2 THEN "_internal" ELSE "mod" \o ToString(i)

\* what a package report records of its i-th submodule
DetailsAt(i) ==
    [functions |-> [k \in 1..(i % 5) |-> FuncAt(k + 3)],
     classes |-> [k \in 1..(i % 4) |-> ClassAt(k)]]

ModuleReport(nf, nc) ==
    [functions |-> [i \in 1..nf |-> FuncAt(i)],
     classes |-> [i \in 1..nc |-> ClassAt(i)],
     variables |-> <<>>]

PackageReport(nf, nc, nv, nm) ==
    [modules |-> [i \in 1..nm |-> ModuleAt(i)],
     functions |-> [i \in 1..nf |-> FuncAt(i)],
     classes |-> [i \in 1..nc |-> ClassAt(i)],
     variables |-> [i \in 1..nv |-> VarAt(i)],
     submodule_details |-> [m \in {ModuleAt(i) : i \in 1..nm} |->
                              DetailsAt(CHOOSE i \in 1..nm : ModuleAt(i) = m)]]

\* the report of the greet scenario
GreetReport ==
    [functions |-> << [name |-> "greet", args |-> <<"name">>, docstring |-> "Say hello"] >>,
     classes |-> <<>>,
     variables |-> <<>>]

\* the report of test_generate_usage_examples: a function descriptor without
\* 'docstring', a class descriptor with empty 'methods'
TestReport ==
    [functions |-> << [name |-> "test_func", args |-> <<"x", "y">>] >>,
     classes |-> << [name |-> "TestClass", methods |-> <<>>] >>,
     variables |-> <<>>]

Reports ==
    {ModuleReport(nf, nc) : nf \in 0..MaxFuncs, nc \in 0..MaxClasses}
    \cup {PackageReport(nf, nc, nv, nm) :
            nf \in 0..MaxFuncs, nc \in 0..MaxClasses, nv \in 0..MaxVars, nm \in 0..MaxModules}
    \cup {GreetReport, TestReport}

Subjects == {"greetings", "m"}

GenInit ==
    /\ gnPc = "ready"
    /\ gnName \in Subjects
    /\ gnAnalysis \in Reports
    /\ gnExamples = <<>>

\* generate_usage_examples(module_name, analysis) returns its lines
Generate ==
    /\ gnPc = "ready"
    /\ gnExamples' = GenerateUsageExamples(gnName, gnAnalysis)
    /\ gnPc' = "done"
    /\ UNCHANGED <<gnName, gnAnalysis>>
    /\ GenOnly

GenNext == Generate

-----------------------------------------------------------------------------
(* Inputs of the analyzer: syntax trees and what a path holds *)

FunctionDef(name, args, defaults, doc, body) ==
    [type |-> "FunctionDef", name |-> name, args |-> args, defaults |-> defaults,
     doc |-> doc, body |-> body]

AsyncFunctionDef(name, args, defaults, doc, body) ==
    [type |-> "AsyncFunctionDef", name |-> name, args |-> args, defaults |-> defaults,
     doc |-> doc, body |-> body]

ClassDef(name, doc, body) == [type |-> "ClassDef", name |-> name, doc |-> doc, body |-> body]

Name(id) == [type |-> "Name", id |-> id]

\* targets = value, the value being a Constant, a Call, ...
Assign(targets, value) == [type |-> "Assign", targets |-> targets, value |-> value]

\* target: annotation = value
AnnAssign(target, value) == [type |-> "AnnAssign", target |-> target, value |-> value]

\* name [as asname]; asname is "" when there is none
Alias(name, asname) == [name |-> name, asname |-> asname]

ImportFrom(names) == [type |-> "ImportFrom", names |-> names]

\* if ...: body
IfStmt(body) == [type |-> "If", body |-> body]

Pass == [type |-> "Pass"]

\* the statements a module body is drawn from
NodePool ==
    { FunctionDef("greet", <<"name">>, 0, "Say hello", <<Pass>>),
      FunctionDef("_private_fn", <<>>, 0, "", <<Pass>>),
      FunctionDef("outer", <<"self", "a", "b">>, 1, "",
                  << FunctionDef("inner", <<>>, 0, "", <<Pass>>),
                     Assign(<<Name("LOCAL")>>, "Constant") >>),
      AsyncFunctionDef("fetch", <<"url">>, 0, "Fetch it", <<Pass>>),
      FunctionDef("bind", <<"a", "self">>, 1, "", <<Pass>>),
      ClassDef("Widget", "A widget",
               << Assign(<<Name("attr")>>, "Constant"),
                  FunctionDef("method", <<"self", "x">>, 1, "Do it",
                              << FunctionDef("helper", <<>>, 0, "", <<Pass>>) >>) >>),
      ClassDef("Gadget", "",
               << FunctionDef("start", <<"self">>, 0, "", <<Pass>>),
                  FunctionDef("_reset", <<"self">>, 0, "", <<Pass>>),
                  FunctionDef("stop", <<"self", "force">>, 1, "", <<Pass>>) >>),
      ClassDef("_Impl", "", << FunctionDef("run", <<"self">>, 0, "", <<Pass>>) >>),
      Assign(<<Name("VERSION")>>, "Constant"),
      Assign(<<Name("_cache")>>, "Constant"),
      Assign(<<Name("handler")>>, "Call"),
      Assign(<<Name("A"), Name("_b"), [type |-> "Attribute"]>>, "Constant"),
      AnnAssign(Name("LIMIT"), "Constant"),
      IfStmt(<< FunctionDef("guarded", <<>>, 0, "", <<Pass>>),
                Assign(<<Name("GUARDED")>>, "Constant") >>) }

\* the statements the body of an __init__.py is drawn from
InitNodePool ==
    { FunctionDef("greet", <<"name">>, 0, "Say hello", <<Pass>>),
      ClassDef("Widget", "A widget", << FunctionDef("method", <<"self">>, 0, "", <<Pass>>) >>),
      Assign(<<Name("VERSION")>>, "Constant"),
      ImportFrom(<<Alias("foo", "")>>),
      ImportFrom(<<Alias("impl", "foo")>>),
      ImportFrom(<<Alias("_impl", "api")>>),
      ImportFrom(<<Alias("thing", "_thing"), Alias("greet", ""), Alias("Widget", "")>>),
      ImportFrom(<<Alias("*", "")>>),
      ImportFrom(<<Alias("current", "VERSION")>>) }

\* the sequences of at most n statements of a pool
RECURSIVE Bodies(_, _)
Bodies(pool, n) ==
    IF n = 0 THEN {<<>>}
    ELSE Bodies(pool, n - 1) \cup {<<node>> \o rest : node \in pool, rest \in Bodies(pool, n - 1)}

\* a regular file: its suffix, what open()/read() and ast.parse() do on it
File(suffix, read, parse, body) ==
    [kind |-> "file", suffix |-> suffix, read |-> read, parse |-> parse, body |-> body,
     entries |-> <<>>]

SourceFile(body) == File(".py", "ok", "ok", body)

MissingPath == [kind |-> "missing", suffix |-> ".py", read |-> "", parse |-> "", body |-> <<>>,
                entries |-> <<>>]

\* a directory and its entries in listing order
Dir(suffix, entries) ==
    [kind |-> "dir", suffix |-> suffix, read |-> "", parse |-> "", body |-> <<>>,
     entries |-> entries]

Entry(name, file) == [name |-> name, file |-> file]

\* what ast.parse raises on text it cannot turn into a tree: SyntaxError,
\* ValueError (a null byte), RecursionError or MemoryError (nesting too deep)
ParseErrors == {"SyntaxError", "ValueError", "RecursionError", "MemoryError"}

\* the files analyze_module cannot take a tree from
BadFiles ==
    {MissingPath, File(".txt", "ok", "ok", <<>>), File(".py", "OSError", "", <<>>),
     File(".py", "UnicodeDecodeError", "", <<>>)}
    \cup {File(".py", "ok", e, <<>>) : e \in ParseErrors}

\* the i-th entry of a package directory beside __init__.py
EntryAt(i) ==
    IF i = 1 THEN Entry("util.py", SourceFile(<< FunctionDef("slugify", <<"text">>, 0, "", <<Pass>>),
                                                 FunctionDef("_strip", <<"text">>, 0, "", <<Pass>>),
                                                 ClassDef("Helper", "", <<>>),
                                                 ClassDef("_Base", "", <<>>) >>))
    ELSE IF i = 2 THEN Entry("_private.py", SourceFile(<< FunctionDef("secret", <<>>, 0, "", <<Pass>>) >>))
    ELSE IF i = 3 THEN Entry("notes.txt", File(".txt", "ok", "ok", <<>>))
    ELSE Entry("mod" \o ToString(i) \o ".py", SourceFile(<< Assign(<<Name("X")>>, "Constant") >>))

PackageDirs ==
    {Dir("", <<Entry("__init__.py", SourceFile(body))>> \o [i \in 1..MaxSubmodules |-> EntryAt(i)]) :
        body \in Bodies(InitNodePool, MaxInitBody)}
    \cup {Dir("", <<Entry("__init__.py", SourceFile(<<>>))>> \o [i \in 1..n |-> EntryAt(i)]) :
            n \in 0..MaxSubmodules}
    \cup {Dir("", <<Entry("__init__.py", f), EntryAt(1)>>) : f \in BadFiles \ {MissingPath}}
    \cup {Dir("", <<EntryAt(1), Entry("broken.py", f)>>) : f \in BadFiles \ {MissingPath}}
    \cup {Dir("", <<Entry("__init__.py", SourceFile(<<>>)), EntryAt(1), Entry("broken.py", f)>>) :
            f \in BadFiles \ {MissingPath}}
    \cup {Dir(".py", <<>>)}

Paths ==
    BadFiles \cup {SourceFile(body) : body \in Bodies(NodePool, MaxBody)} \cup PackageDirs

AnalyzeInit ==
    /\ anPc = "ready"
    /\ anPath \in Paths
    /\ anCall = ""
    /\ anResult = <<>>

\* a caller runs analyze_module(file_path)
CallAnalyzeModule ==
    /\ anPc = "ready"
    /\ anCall' = "analyze_module"
    /\ anResult' = AnalyzeModule(anPath)
    /\ anPc' = "done"
    /\ UNCHANGED anPath
    /\ AnalyzeOnly

\* a caller runs analyze_package(package_path)
CallAnalyzePackage ==
    /\ anPc = "ready"
    /\ anCall' = "analyze_package"
    /\ anResult' = AnalyzePackage(anPath)
    /\ anPc' = "done"
    /\ UNCHANGED anPath
    /\ AnalyzeOnly

AnalyzeNext == CallAnalyzeModule \/ CallAnalyzePackage

-----------------------------------------------------------------------------
(* core.py: the installer.  st is the state of the world a call works on:  *)
(* [src, site, registry]; a call returns the state it leaves and its result *)

\* the position of the last occurrence of the character ch in s, 0 when none
LastIndexOf(s, ch) ==
    IF \E i \in 1..Len(s) : SubSeq(s, i, i) = ch
    THEN CHOOSE i \in 1..Len(s) :
            SubSeq(s, i, i) = ch /\ \A j \in (i + 1)..Len(s) : SubSeq(s, j, j) # ch
    ELSE 0

\* Path(p).name
PathName(p) == SubSeq(p, LastIndexOf(p, "/") + 1, Len(p))

\* Path(p).stem: the name without its last suffix
PathStem(p) ==
    LET name == PathName(p)
        dot == LastIndexOf(name, ".")
    IN IF dot > 1 THEN SubSeq(name, 1, dot - 1) ELSE name

\* the working directory relative paths are resolved in
Cwd == "/work"

\* str(Path(p).parent.absolute())
ParentAbsolute(p) ==
    IF LastIndexOf(p, "/") > 1 THEN Cwd \o "/" \o SubSeq(p, 1, LastIndexOf(p, "/") - 1) ELSE Cwd

\* line.split('|')
RECURSIVE SplitBar(_)
SplitBar(line) ==
    IF ~Contains(line, "|") THEN <<line>>
    ELSE LET i == CHOOSE k \in 1..Len(line) :
                    SubSeq(line, k, k) = "|" /\ \A j \in 1..(k - 1) : SubSeq(line, j, j) # "|"
         IN <<SubSeq(line, 1, i - 1)>> \o SplitBar(SubSeq(line, i + 1, Len(line)))

\* _get_registered_modules(): the first field of every line that has a '|'
RegisteredModules(reg) ==
    LET lines == SelectSeq(reg, LAMBDA line : line # "" /\ Contains(line, "|"))
    IN [i \in 1..Len(lines) |-> SplitBar(lines[i])[1]]

\* name in _get_registered_modules(), for a str
IsRegistered(reg, name) ==
    \E i \in 1..Len(RegisteredModules(reg)) : RegisteredModules(reg)[i] = name

\* _register_module(name, source, dev_mode): one more line at the end
RegisterModule(reg, name, source, dev_mode) ==
    Append(reg, name \o "|" \o source \o "|" \o (IF dev_mode THEN "dev" ELSE "copy"))

\* _unregister_module(name): every line that starts with "name|" goes
UnregisterModule(reg, name) ==
    SelectSeq(reg, LAMBDA e : ~StartsWith(e, name \o "|"))

\* path.exists() in site-packages
InSite(st, file) == file \in DOMAIN st.site

\* the file written or replaced in site-packages
WriteSite(st, file, contents) ==
    [st EXCEPT !.site = [f \in DOMAIN st.site \cup {file} |->
                            IF f = file THEN contents ELSE st.site[f]]]

\* the file removed from site-packages
UnlinkSite(st, file) ==
    [st EXCEPT !.site = [f \in DOMAIN st.site \ {file} |-> st.site[f]]]

\* the directories of the user's source files
SourceDirs == {"proj"}

\* source_path.is_dir()
IsSourceDir(source) == source \in SourceDirs

\* source_path.exists()
SourceExists(st, source) ==
    IsSourceDir(source) \/ (source \in DOMAIN st.src /\ st.src[source] # "")

\* Python values of the name argument: None, a str, or the bool the CLI passes
PyNone == [type |-> "NoneType", repr |-> "None"]
PyStr(s) == [type |-> "str", repr |-> s]
PyBool(b) == [type |-> "bool", repr |-> IF b THEN "True" ELSE "False"]

\* bool(value)
Truthy(v) == (v.type = "bool" /\ v.repr = "True") \/ (v.type = "str" /\ v.repr # "")

\* the tree ast.parse makes of a file's contents
ContentBody(contents) ==
    IF contents = "v1" THEN << FunctionDef("greet", <<"name">>, 0, "Say hello", <<Pass>>) >>
    ELSE IF contents = "v2"
    THEN << FunctionDef("greet", <<"name", "count">>, 1, "Say hello", <<Pass>>),
            Assign(<<Name("VERSION")>>, "Constant") >>
    ELSE <<>>

\* what analyze_module finds at a path of site-packages
SitePath(st, file) ==
    IF InSite(st, file) THEN SourceFile(ContentBody(st.site[file])) ELSE MissingPath

\* the result of install_module and of the other calls, with the state left
Outcome(st, success, message, analysis) ==
    [st |-> st, success |-> success, message |-> message, analysis |-> analysis]

\* Optional[Dict]: None is the empty sequence, a dict the sequence of it
None == <<>>
Some(value) == <<value>>

\* dev mode writes a .pth file naming the source's directory, copy mode
\* copies the source to the target
WriteModule(st, source, module_name, dev_mode) ==
    IF dev_mode
    THEN WriteSite(st, "nopkg_" \o module_name \o ".pth", ParentAbsolute(source) \o "\n")
    ELSE WriteSite(st, module_name \o ".py", st.src[source])

\* _register_module on the state
Register(st, module_name, source, dev_mode) ==
    [st EXCEPT !.registry = RegisterModule(st.registry, module_name, source, dev_mode)]

\* _unregister_module on the state
Unregister(st, module_name) ==
    [st EXCEPT !.registry = UnregisterModule(st.registry, module_name)]

\* one file of _install_directory: skipped when the target exists.
\* acc is [st, installed], the state and the list the loop builds
InstallDirectoryFile(acc, py_file, dev_mode) ==
    IF InSite(acc.st, PathStem(py_file) \o ".py") THEN acc
    ELSE [st |-> Register(WriteModule(acc.st, py_file, PathStem(py_file), dev_mode),
                          PathStem(py_file), py_file, dev_mode),
          installed |-> Append(acc.installed, PathStem(py_file))]

\* the loop of _install_directory over python_files
RECURSIVE InstallDirectoryFiles(_, _, _)
InstallDirectoryFiles(acc, python_files, dev_mode) ==
    IF python_files = <<>> THEN acc
    ELSE InstallDirectoryFiles(InstallDirectoryFile(acc, python_files[1], dev_mode),
                               Tail(python_files), dev_mode)

\* the user's source files, in the order a directory lists them
SourceOrder == << "proj/a.py", "proj/b.py" >>

\* source_dir.glob("*.py")
PythonFiles(st, source_dir) ==
    SelectSeq(SourceOrder, LAMBDA f : st.src[f] # "" /\ StartsWith(f, source_dir \o "/")
                                      /\ EndsWith(f, ".py"))

\* what _install_directory returns after its loop
DirectoryOutcome(done) ==
    IF done.installed = <<>>
    THEN Outcome(done.st, FALSE, "No modules were installed", None)
    ELSE Outcome(done.st, TRUE,
                 "Successfully installed modules: " \o Join(", ", done.installed), None)

\* _install_directory(source_dir, site_packages, name, dev_mode)
InstallDirectory(st, source_dir, dev_mode) ==
    IF PythonFiles(st, source_dir) = <<>>
    THEN Outcome(st, FALSE, "No Python files found in " \o source_dir, None)
    ELSE DirectoryOutcome(InstallDirectoryFiles([st |-> st, installed |-> <<>>],
                                                PythonFiles(st, source_dir), dev_mode))

\* the end of install_module: the installed file is analyzed
InstalledOutcome(st, module_name) ==
    Outcome(st, TRUE, "Successfully installed module '" \o module_name \o "'",
            Some(AnalyzeModule(SitePath(st, module_name \o ".py")).report))

\* install_module for a source file, module_name being the name it chose
InstallFile(st, source, module_name, dev_mode) ==
    IF InSite(st, module_name.repr \o ".py")
    THEN IF module_name.type = "str" /\ IsRegistered(st.registry, module_name.repr)
         THEN Outcome(st, FALSE,
                      "Module '" \o module_name.repr
                          \o "' is already installed by nopkg. Use 'nopkg uninstall "
                          \o module_name.repr \o "' first.", None)
         ELSE Outcome(st, FALSE,
                      "Module '" \o module_name.repr
                          \o "' already exists (not managed by nopkg)", None)
    ELSE InstalledOutcome(Register(WriteModule(st, source, module_name.repr, dev_mode),
                                   module_name.repr, source, dev_mode),
                          module_name.repr)

\* install_module(source, name, dev_mode)
InstallModule(st, source, name, dev_mode) ==
    IF IsSourceDir(source)
    THEN InstallDirectory(st, source, dev_mode)
    ELSE IF ~SourceExists(st, source)
    THEN Outcome(st, FALSE, "Source file not found: " \o source, None)
    ELSE InstallFile(st, source, IF Truthy(name) THEN name ELSE PyStr(PathStem(source)),
                     dev_mode)

\* uninstall_module(module_name)
UninstallModule(st, module_name) ==
    IF ~InSite(st, module_name \o ".py") /\ ~InSite(st, "nopkg_" \o module_name \o ".pth")
    THEN Outcome(st, FALSE, "Module " \o module_name \o " is not installed", None)
    ELSE Outcome(Unregister(UnlinkSite(UnlinkSite(st, module_name \o ".py"),
                                       "nopkg_" \o module_name \o ".pth"),
                            module_name),
                 TRUE, "Successfully uninstalled module '" \o module_name \o "'", None)

\* the end of update_module: the result of the reinstall
Reinstalled(module_name, installed) ==
    IF installed.success
    THEN Outcome(installed.st, TRUE, "Successfully updated module '" \o module_name \o "'", None)
    ELSE Outcome(installed.st, FALSE, "Failed to reinstall module: " \o installed.message, None)

\* update_module once the registry line is found: uninstall, then install
\* again from the recorded source in the recorded mode
Reinstall(module_name, parts, removed) ==
    IF ~removed.success
    THEN Outcome(removed.st, FALSE,
                 "Failed to uninstall existing module: " \o removed.message, None)
    ELSE Reinstalled(module_name,
                     InstallModule(removed.st, parts[2], PyStr(module_name), parts[3] = "dev"))

\* update_module with the registry lines that start with "module_name|"
UpdateFound(st, module_name, found) ==
    IF found = <<>> \/ Len(SplitBar(found[1])) < 3
    THEN Outcome(st, FALSE, "Module '" \o module_name \o "' not found in registry", None)
    ELSE Reinstall(module_name, SplitBar(found[1]), UninstallModule(st, module_name))

\* update_module(module_name); a registry without lines is a registry file
\* that was never written
UpdateModule(st, module_name) ==
    IF st.registry = <<>>
    THEN Outcome(st, FALSE, "Module '" \o module_name \o "' not found", None)
    ELSE UpdateFound(st, module_name,
                     SelectSeq(st.registry,
                               LAMBDA line : line # "" /\ StartsWith(line, module_name \o "|")))

-----------------------------------------------------------------------------
(* cli.py: the commands *)

\* fnmatch / glob of a pattern with one '*': the text before and after it
StarMatch(pattern, item) ==
    LET star == CHOOSE k \in 1..Len(pattern) : SubSeq(pattern, k, k) = "*"
    IN /\ Len(item) >= Len(pattern) - 1
       /\ StartsWith(item, SubSeq(pattern, 1, star - 1))
       /\ EndsWith(item, SubSeq(pattern, star + 1, Len(pattern)))

\* glob.glob(pattern): '*' does not cross a directory separator
GlobMatch(pattern, path) ==
    /\ StarMatch(pattern, path)
    /\ LastIndexOf(path, "/") = LastIndexOf(pattern, "/")

\* removing duplicates while preserving order: seen is the result so far
RECURSIVE Dedup(_, _)
Dedup(seen, items) ==
    IF items = <<>> THEN seen
    ELSE IF \E i \in 1..Len(seen) : seen[i] = items[1]
    THEN Dedup(seen, Tail(items))
    ELSE Dedup(Append(seen, items[1]), Tail(items))

\* _expand_patterns for install: glob.glob and Path.exists
ExpandSources(st, patterns) ==
    Dedup(<<>>, Flatten([i \in 1..Len(patterns) |->
        IF Contains(patterns[i], "*")
        THEN SelectSeq(SourceOrder, LAMBDA f : st.src[f] # "" /\ GlobMatch(patterns[i], f))
        ELSE IF SourceExists(st, patterns[i]) THEN <<patterns[i]>> ELSE <<>>]))

\* name.replace('.py', '') if name.endswith('.py') else name
NormalName(name) == IF EndsWith(name, ".py") THEN Replace(name, ".py", "") ELSE name

\* _expand_patterns for uninstall: fnmatch over the installed modules
ExpandModules(installed_modules, patterns) ==
    Dedup(<<>>, Flatten([i \in 1..Len(patterns) |->
        IF patterns[i] = "*" THEN installed_modules
        ELSE IF Contains(patterns[i], "*")
        THEN SelectSeq(installed_modules, LAMBDA m : StarMatch(patterns[i], m))
        ELSE IF \E k \in 1..Len(installed_modules) :
                    installed_modules[k] = NormalName(patterns[i])
        THEN <<NormalName(patterns[i])>> ELSE <<>>]))

\* what a command leaves: the state, one result per item, and whether it
\* ended without a ClickException
Command(st, results, ok) == [st |-> st, results |-> results, ok |-> ok]

\* the output of one item of a command, with the report the call returned
Result(item, success, message, usage, analysis) ==
    [item |-> item, success |-> success, message |-> message, usage |-> usage,
     analysis |-> analysis]

\* the usage examples the install command prints after a success
InstallUsage(source, outcome) ==
    IF outcome.success /\ outcome.analysis # None
    THEN GenerateUsageExamples(IF IsSourceDir(source) THEN PathName(source) ELSE PathStem(source),
                               outcome.analysis[1])
    ELSE <<>>

\* one item of a command's loop: acc is [st, results]
Step(acc, item, outcome, usage) ==
    [st |-> outcome.st,
     results |-> Append(acc.results, Result(item, outcome.success, outcome.message, usage,
                                               outcome.analysis))]

\* one source of the install command: dev is passed where install_module
\* takes name
InstallStep(acc, source, outcome) == Step(acc, source, outcome, InstallUsage(source, outcome))

\* the loop of the install command
RECURSIVE InstallLoop(_, _, _)
InstallLoop(acc, sources, dev) ==
    IF sources = <<>> THEN acc
    ELSE InstallLoop(InstallStep(acc, sources[1],
                                 InstallModule(acc.st, sources[1], PyBool(dev), FALSE)),
                     Tail(sources), dev)

\* a command fails when every item failed
Finished(done) ==
    Command(done.st, done.results, \E i \in 1..Len(done.results) : done.results[i].success)

\* the install command after _expand_patterns
InstallExpanded(st, expanded_sources, dev) ==
    IF expanded_sources = <<>> THEN Command(st, <<>>, FALSE)
    ELSE Finished(InstallLoop([st |-> st, results |-> <<>>], expanded_sources, dev))

\* nopkg install [-e] SOURCES...
Install(st, sources, dev) == InstallExpanded(st, ExpandSources(st, sources), dev)

\* the loop of the uninstall command
RECURSIVE UninstallLoop(_, _)
UninstallLoop(acc, module_names) ==
    IF module_names = <<>> THEN acc
    ELSE UninstallLoop(Step(acc, module_names[1],
                            UninstallModule(acc.st, module_names[1]), <<>>),
                       Tail(module_names))

\* the uninstall command after _expand_patterns
UninstallExpanded(st, expanded_modules) ==
    IF expanded_modules = <<>> THEN Command(st, <<>>, FALSE)
    ELSE Finished(UninstallLoop([st |-> st, results |-> <<>>], expanded_modules))

\* nopkg uninstall MODULE_NAMES...
Uninstall(st, module_names) ==
    UninstallExpanded(st, ExpandModules(RegisteredModules(st.registry), module_names))

\* a command of one call: it fails when the call fails
Single(item, outcome) ==
    Command(outcome.st,
            <<Result(item, outcome.success, outcome.message, <<>>, outcome.analysis)>>,
            outcome.success)

\* nopkg update MODULE_NAME
Update(st, module_name) == Single(module_name, UpdateModule(st, module_name))

-----------------------------------------------------------------------------
(* The installer's world: source files the user edits, site-packages, the  *)
(* registry, and the commands and calls made on them                       *)

\* the contents a source file can have; "" is no file
Contents == {"v1", "v2"}

\* a module already in site-packages that nopkg did not put there
ForeignSite == [f \in {"b.py"} |-> "other"]
EmptySite == [f \in {} |-> ""]

\* the state a command works on
World == [src |-> srcFiles, site |-> site, registry |-> registry]

NoCommand == [op |-> "", args |-> <<>>, dev |-> FALSE,
              pre |-> [src |-> <<>>, site |-> <<>>, registry |-> <<>>],
              results |-> <<>>, ok |-> TRUE]

\* the arguments of the commands
SourceArgs == { <<"proj/a.py">>, <<"proj/b.py">>, <<"proj">>, <<"proj/*.py", "proj/a.py">> }
ModuleNames == {"a", "b", "True"}
ModuleArgs == { <<"a">>, <<"b.py", "b">>, <<"*">>, <<"T*">> }
NameArgs == { PyNone }

\* the source file the user works on
Edited == {"proj/a.py"}

InstallInit ==
    /\ srcFiles = [f \in {SourceOrder[i] : i \in 1..Len(SourceOrder)} |-> "v1"]
    /\ site \in {EmptySite, ForeignSite}
    /\ registry = <<>>
    /\ last = NoCommand

\* a command or call runs: the state it leaves (the registry file within
\* its bound) and the record of what was asked, the state before, the result
Runs(op, args, dev, done) ==
    /\ Len(done.st.registry) <= MaxRegistry
    /\ site' = done.st.site
    /\ registry' = done.st.registry
    /\ last' = [op |-> op, args |-> args, dev |-> dev, pre |-> World,
                results |-> done.results, ok |-> done.ok]
    /\ UNCHANGED srcFiles

\* the user edits, creates or deletes a source file
EditSource(f, contents) ==
    /\ srcFiles[f] # contents
    /\ srcFiles' = [srcFiles EXCEPT ![f] = contents]
    /\ last' = NoCommand
    /\ UNCHANGED <<site, registry>>
    /\ InstallOnly

CliInstall(sources, dev) ==
    /\ Runs("install", sources, dev, Install(World, sources, dev))
    /\ InstallOnly

CliUninstall(module_names) ==
    /\ Runs("uninstall", module_names, FALSE, Uninstall(World, module_names))
    /\ InstallOnly

CliUpdate(module_name) ==
    /\ Runs("update", <<module_name>>, FALSE, Update(World, module_name))
    /\ InstallOnly

CallInstallModule(source, name, dev_mode) ==
    /\ Runs("install_module", <<source, name.repr>>, dev_mode,
            Single(source, InstallModule(World, source, name, dev_mode)))
    /\ InstallOnly

CallUninstallModule(module_name) ==
    /\ Runs("uninstall_module", <<module_name>>, FALSE,
            Single(module_name, UninstallModule(World, module_name)))
    /\ InstallOnly

CallUpdateModule(module_name) ==
    /\ Runs("update_module", <<module_name>>, FALSE,
            Single(module_name, UpdateModule(World, module_name)))
    /\ InstallOnly

DoEditSource == \E f \in Edited, c \in Contents \cup {""} : EditSource(f, c)
DoCliInstall == \E sources \in SourceArgs, dev \in BOOLEAN : CliInstall(sources, dev)
DoCliUninstall == \E module_names \in ModuleArgs : CliUninstall(module_names)
DoCliUpdate == \E module_name \in ModuleNames : CliUpdate(module_name)
DoCallInstallModule ==
    \E source \in DOMAIN srcFiles \cup SourceDirs, name \in NameArgs, dev_mode \in BOOLEAN :
        CallInstallModule(source, name, dev_mode)
DoCallUninstallModule == \E module_name \in ModuleNames : CallUninstallModule(module_name)
DoCallUpdateModule == \E module_name \in ModuleNames : CallUpdateModule(module_name)

InstallNext ==
    \/ DoEditSource
    \/ DoCliInstall
    \/ DoCliUninstall
    \/ DoCliUpdate
    \/ DoCallInstallModule
    \/ DoCallUninstallModule
    \/ DoCallUpdateModule

-----------------------------------------------------------------------------
(* Two processes on one site-packages directory and one registry file:     *)
(* install_module and uninstall_module, one file-system operation a step   *)

Procs == {"p1", "p2"}

\* install_module(source): a single file, copy mode, no name given
InstallTask(source) ==
    [op |-> "install_module", arg |-> source, name |-> PathStem(source)]

\* uninstall_module(module_name)
UninstallTask(module_name) ==
    [op |-> "uninstall_module", arg |-> module_name, name |-> module_name]

\* a process about to make its call
Started(task) == [task |-> task, pc |-> "start", entries |-> <<>>, success |-> FALSE]

\* the module a process with an uninstall task removes, installed beforehand
Preinstalled == "c"
PreinstalledSite == [f \in {Preinstalled \o ".py"} |-> "v1"]
PreinstalledRegistry == RegisterModule(<<>>, Preinstalled, "proj/c.py", FALSE)

RaceInit ==
    /\ srcFiles = [f \in {SourceOrder[i] : i \in 1..Len(SourceOrder)} |-> "v1"]
    /\ \/ site \in {EmptySite, ForeignSite} /\ registry = <<>>
       \/ site \in {PreinstalledSite, PreinstalledSite @@ ForeignSite}
             /\ registry = PreinstalledRegistry
    /\ last = NoCommand
    /\ \E second \in {InstallTask("proj/b.py"), UninstallTask(Preinstalled)} :
          procs = [p \in Procs |-> IF p = "p1" THEN Started(InstallTask("proj/a.py"))
                                              ELSE Started(second)]

\* process p goes on to pc
Moves(p, pc) == procs' = [procs EXCEPT ![p].pc = pc]

\* what a file holds after a writer that opened it at offset 0 has written
\* lines over content, all lines being of one length: the rest of content stays
WriteAtStart(lines, content) == lines \o SubSeq(content, Len(lines) + 1, Len(content))

\* install_module up to the existence checks: failure when the source is
\* missing or the target is there
InstallCheck(p) ==
    /\ procs[p].pc = "start" /\ procs[p].task.op = "install_module"
    /\ IF SourceExists(World, procs[p].task.arg)
            /\ ~InSite(World, procs[p].task.name \o ".py")
       THEN Moves(p, "copy") ELSE Moves(p, "done")
    /\ UNCHANGED <<site, registry>>
    /\ RaceOnly

\* shutil.copy2(source_path, target_path)
InstallCopy(p) ==
    /\ procs[p].pc = "copy"
    /\ site' = WriteModule(World, procs[p].task.arg, procs[p].task.name, FALSE).site
    /\ Moves(p, "read")
    /\ UNCHANGED registry
    /\ RaceOnly

\* uninstall_module up to the existence checks: failure when neither file is there
UninstallCheck(p) ==
    /\ procs[p].pc = "start" /\ procs[p].task.op = "uninstall_module"
    /\ IF InSite(World, procs[p].task.name \o ".py")
            \/ InSite(World, "nopkg_" \o procs[p].task.name \o ".pth")
       THEN Moves(p, "unlink") ELSE Moves(p, "done")
    /\ UNCHANGED <<site, registry>>
    /\ RaceOnly

\* target_path.unlink(), pth_path.unlink()
UninstallUnlink(p) ==
    /\ procs[p].pc = "unlink"
    /\ site' = UnlinkSite(UnlinkSite(World, procs[p].task.name \o ".py"),
                          "nopkg_" \o procs[p].task.name \o ".pth").site
    /\ Moves(p, "read")
    /\ UNCHANGED registry
    /\ RaceOnly

\* _register_module / _unregister_module: the file is read and the list to
\* write is built in memory
RegistryRead(p) ==
    /\ procs[p].pc = "read"
    /\ procs' = [procs EXCEPT
                   ![p].pc = "open",
                   ![p].entries =
                       IF procs[p].task.op = "install_module"
                       THEN RegisterModule(registry, procs[p].task.name,
                                           procs[p].task.arg, FALSE)
                       ELSE UnregisterModule(registry, procs[p].task.name)]
    /\ UNCHANGED <<site, registry>>
    /\ RaceOnly

\* open(registry_path, 'w'): the file is truncated
RegistryOpen(p) ==
    /\ procs[p].pc = "open"
    /\ registry' = <<>>
    /\ Moves(p, "close")
    /\ UNCHANGED site
    /\ RaceOnly

\* the end of the with block: the buffered lines reach the file
RegistryClose(p) ==
    /\ procs[p].pc = "close"
    /\ registry' = WriteAtStart(procs[p].entries, registry)
    /\ Moves(p, "return")
    /\ UNCHANGED site
    /\ RaceOnly

\* the call returns success
Return(p) ==
    /\ procs[p].pc = "return"
    /\ procs' = [procs EXCEPT ![p].pc = "done", ![p].success = TRUE]
    /\ UNCHANGED <<site, registry>>
    /\ RaceOnly

DoInstallCheck == \E p \in Procs : InstallCheck(p)
DoInstallCopy == \E p \in Procs : InstallCopy(p)
DoUninstallCheck == \E p \in Procs : UninstallCheck(p)
DoUninstallUnlink == \E p \in Procs : UninstallUnlink(p)
DoRegistryRead == \E p \in Procs : RegistryRead(p)
DoRegistryOpen == \E p \in Procs : RegistryOpen(p)
DoRegistryClose == \E p \in Procs : RegistryClose(p)
DoReturn == \E p \in Procs : Return(p)

RaceNext ==
    \/ DoInstallCheck
    \/ DoInstallCopy
    \/ DoUninstallCheck
    \/ DoUninstallUnlink
    \/ DoRegistryRead
    \/ DoRegistryOpen
    \/ DoRegistryClose
    \/ DoReturn

-----------------------------------------------------------------------------
(* What the claims read off a syntax tree and a report *)

\* the nodes strictly inside the top-level statements
Nested(body) ==
    Flatten([i \in 1..Len(body) |->
               IF "body" \in DOMAIN body[i] THEN Walk(body[i].body) ELSE <<>>])

\* the names a sequence of nodes defines with def or async def
DefNames(nodes) ==
    NamesOf(SelectSeq(nodes, LAMBDA n : n.type \in {"FunctionDef", "AsyncFunctionDef"}))

\* the public names the top level declares as functions, in order
DeclaredFunctions(body) ==
    NamesOf(SelectSeq(body, LAMBDA n : n.type \in {"FunctionDef", "AsyncFunctionDef"}
                                       /\ IsPublic(n.name)))

\* the public names the top level declares as classes, in order
DeclaredClasses(body) ==
    NamesOf(SelectSeq(body, LAMBDA n : n.type = "ClassDef" /\ IsPublic(n.name)))

\* the names bound by one plain assignment statement
BoundNames(node) ==
    LET named == SelectSeq(node.targets, LAMBDA t : t.type = "Name")
    IN [i \in 1..Len(named) |-> named[i].id]

\* the public names the top level binds to a literal by plain assignment, in order
DeclaredConstants(body) ==
    SelectSeq(Flatten([i \in 1..Len(body) |->
                         IF body[i].type = "Assign" /\ body[i].value = "Constant"
                         THEN BoundNames(body[i]) ELSE <<>>]),
              IsPublic)

\* the top level holds only function definitions (def, async def), class
\* definitions and plain assignments of a literal to names
OnlyDefinitions(body) ==
    \A i \in 1..Len(body) :
        \/ body[i].type \in {"FunctionDef", "AsyncFunctionDef", "ClassDef"}
        \/ /\ body[i].type = "Assign"
           /\ body[i].value = "Constant"
           /\ \A j \in 1..Len(body[i].targets) : body[i].targets[j].type = "Name"

\* the path holds Python source that open() reads and ast.parse() parses
IsValidSource(path) ==
    path.kind = "file" /\ path.suffix = ".py" /\ path.read = "ok" /\ path.parse = "ok"

\* the number of entries of seq equal to x
Occurrences(seq, x) == Cardinality({i \in 1..Len(seq) : seq[i] = x})

\* the names of a report's functions, classes and their methods, its variables
ReportNames(report) ==
    {report.functions[i].name : i \in 1..Len(report.functions)}
    \cup {report.classes[i].name : i \in 1..Len(report.classes)}
    \cup UNION {{report.classes[i].methods[j].name : j \in 1..Len(report.classes[i].methods)} :
                  i \in 1..Len(report.classes)}
    \cup (IF "variables" \in DOMAIN report
          THEN {report.variables[i] : i \in 1..Len(report.variables)} ELSE {})

\* every name anywhere in a module or package report
AllNames(report) ==
    ReportNames(report)
    \cup (IF "modules" \in DOMAIN report
          THEN {report.modules[i] : i \in 1..Len(report.modules)}
               \cup DOMAIN report.submodule_details
               \cup UNION {ReportNames(report.submodule_details[m]) :
                             m \in DOMAIN report.submodule_details}
          ELSE {})

\* the analyzer call has returned a report to its caller
AnalyzerReturned == anPc = "done" /\ anResult.raised = ""

-----------------------------------------------------------------------------
(* What the claims read off a list of lines *)

\* some line of the list is exactly line
HasLine(examples, line) == \E i \in 1..Len(examples) : examples[i] = line

\* the number of occurrences of the character ch in s
CountOf(s, ch) == Cardinality({i \in 1..Len(s) : SubSeq(s, i, i) = ch})

\* the number of lines that start with prefix
CountStarting(examples, prefix) ==
    Cardinality({i \in 1..Len(examples) : StartsWith(examples[i], prefix)})

\* the report has no function, no class, no constant (and no submodule)
IsEmptyReport(analysis) ==
    /\ analysis.functions = <<>>
    /\ analysis.classes = <<>>
    /\ analysis.variables = <<>>
    /\ "modules" \in DOMAIN analysis => analysis.modules = <<>>

-----------------------------------------------------------------------------
(* Specifications *)

\* calls of _suggest_arg_value
SuggestSpecInit == SuggestInit /\ GenIdle /\ AnalyzeIdle /\ InstallIdle /\ RaceIdle
SuggestSpec == SuggestSpecInit /\ [][SuggestNext]_vars

\* calls of generate_usage_examples
GenSpecInit == GenInit /\ SuggestIdle /\ AnalyzeIdle /\ InstallIdle /\ RaceIdle
GenSpec == GenSpecInit /\ [][GenNext]_vars

\* calls of analyze_module and analyze_package
AnalyzeSpecInit == AnalyzeInit /\ SuggestIdle /\ GenIdle /\ InstallIdle /\ RaceIdle
AnalyzeSpec == AnalyzeSpecInit /\ [][AnalyzeNext]_vars

\* the installer and the commands
InstallSpecInit == InstallInit /\ SuggestIdle /\ GenIdle /\ AnalyzeIdle /\ RaceIdle
InstallSpec == InstallSpecInit /\ [][InstallNext]_vars

\* two processes, each making one call of install_module or uninstall_module
RaceSpecInit == RaceInit /\ SuggestIdle /\ GenIdle /\ AnalyzeIdle
RaceSpec == RaceSpecInit /\ [][RaceNext]_vars

Spec == GenSpec

-----------------------------------------------------------------------------
(* Properties *)

\* C1: for every subject name, the lines generated from an empty report
\* (module-shaped, or package-shaped with an empty 'modules' list) are exactly
\* the one line "import <name>": no trailing blank line, no comment line.
C1_EmptyReportOneLine ==
    (gnPc = "done" /\ IsEmptyReport(gnAnalysis)) => gnExamples = << "import " \o gnName >>

\* C2 as stated: the greet report for subject "greetings" yields lines that
\* include the import, the from-import, a comment containing "greet: Say hello"
\* and the call line greetings.greet("World").
C2_GreetCallsWorld ==
    (gnPc = "done" /\ gnName = "greetings" /\ gnAnalysis = GreetReport) =>
        /\ HasLine(gnExamples, "import greetings")
        /\ HasLine(gnExamples, "from greetings import greet")
        /\ \E i \in 1..Len(gnExamples) :
              StartsWith(gnExamples[i], "#") /\ Contains(gnExamples[i], "greet: Say hello")
        /\ HasLine(gnExamples, "greetings.greet(\"World\")")

\* C2 as amended: the same lines, the call line being greet("alice"): the
\* module path calls the function unqualified and the "name" rule suggests "alice".
C2_GreetCallsAlice ==
    (gnPc = "done" /\ gnName = "greetings" /\ gnAnalysis = GreetReport) =>
        /\ HasLine(gnExamples, "import greetings")
        /\ HasLine(gnExamples, "from greetings import greet")
        /\ \E i \in 1..Len(gnExamples) :
              StartsWith(gnExamples[i], "#") /\ Contains(gnExamples[i], "greet: Say hello")
        /\ HasLine(gnExamples, "greet(\"alice\")")

\* C2 witness: the greet report has been rendered for "greetings"
C2_Witness ==
    /\ gnPc = "done" /\ gnName = "greetings" /\ gnAnalysis = GreetReport
    /\ HasLine(gnExamples, "greet(name)")

\* C3: the analyzer never raises to its caller: for every path (missing, not
\* ending in .py, unreadable, undecodable, or text that fails to parse for any
\* reason) analyze_module returns the empty report, and analyze_package on a
\* non-directory or a directory without __init__.py returns the empty package
\* report.
C3_AnalyzerNeverRaises ==
    anPc = "done" =>
        /\ anResult.raised = ""
        /\ (anCall = "analyze_module" /\ ~IsValidSource(anPath)) =>
              anResult.report = EmptyReport
        /\ (anCall = "analyze_package" /\ (anPath.kind # "dir" \/ ~HasInit(anPath))) =>
              anResult.report = EmptyPackageReport

\* C4: in every report analyze_module or analyze_package returns, no function,
\* class, method, constant or submodule name, and no name inside a submodule's
\* details, starts with an underscore, whatever the source declares and
\* whatever aliases __init__.py re-exports under.
C4_NoUnderscoreNames ==
    AnalyzerReturned => \A name \in AllNames(anResult.report) : ~StartsWith(name, "_")

\* C4 witness: a package whose __init__.py re-exports under a private alias and
\* from a private name, beside private submodule members and a private
\* submodule file, has been analyzed into a report that holds names
C4_Witness ==
    /\ AnalyzerReturned
    /\ anCall = "analyze_package"
    /\ anPath.kind = "dir"
    /\ HasInit(anPath)
    /\ \E i \in 1..Len(InitFile(anPath).body) :
          /\ InitFile(anPath).body[i].type = "ImportFrom"
          /\ \E j \in 1..Len(InitFile(anPath).body[i].names) :
                StartsWith(InitFile(anPath).body[i].names[j].asname, "_")
    /\ \E i \in 1..Len(anPath.entries) : anPath.entries[i].name = "_private.py"
    /\ "Helper" \in AllNames(anResult.report)
    /\ "Widget" \in AllNames(anResult.report)

\* C5: for every valid module whose top level holds only function, class and
\* literal-constant definitions, the functions, classes and variables lists of
\* analyze_module are exactly the declared public names of each kind, in
\* declaration order.
C5_ReportsExactlyDeclared ==
    (AnalyzerReturned /\ anCall = "analyze_module" /\ IsValidSource(anPath)
       /\ OnlyDefinitions(anPath.body)) =>
        /\ NamesOf(anResult.report.functions) = DeclaredFunctions(anPath.body)
        /\ NamesOf(anResult.report.classes) = DeclaredClasses(anPath.body)
        /\ anResult.report.variables = DeclaredConstants(anPath.body)

ReExportAliases(body) ==
    Flatten([i \in 1..Len(body) |->
               IF body[i].type = "ImportFrom"
               THEN SelectSeq(body[i].names, LAMBDA a : a.name # "*") ELSE <<>>])

\* a package with a readable __init__.py has been analyzed
PackageAnalyzed ==
    /\ AnalyzerReturned
    /\ anCall = "analyze_package"
    /\ anPath.kind = "dir"
    /\ HasInit(anPath)
    /\ IsValidSource(InitFile(anPath))

\* C7 as stated: a name __init__.py re-exports with a top-level from-import
\* (optionally under an alias) is in the package report's variables exactly
\* once when it is not a function or class of __init__.py, and is not added
\* when it is a function or a class name; also when several import statements
\* re-export the same alias.  (Read for exported names that are public.)
C7_ReExportedExactlyOnce ==
    PackageAnalyzed =>
        LET aliases == ReExportAliases(InitFile(anPath).body)
            own == ExtractReport(InitFile(anPath).body)
            ownDefs == {own.functions[i].name : i \in 1..Len(own.functions)}
                       \cup {own.classes[i].name : i \in 1..Len(own.classes)}
        IN \A i \in 1..Len(aliases) :
              IsPublic(ExportedName(aliases[i])) =>
                  IF ExportedName(aliases[i]) \in ownDefs
                  THEN Occurrences(anResult.report.variables, ExportedName(aliases[i])) = 0
                  ELSE Occurrences(anResult.report.variables, ExportedName(aliases[i])) = 1

\* C7 as amended: a re-exported name whose imported name and exported name are
\* both public is in variables exactly once when the analysis of __init__.py
\* reports it neither as a function, nor as a class, nor as a variable; when
\* it does, the re-export adds nothing: variables holds the name as often as
\* the assignments of __init__.py put it there (never, for a function or class).
C7_PublicReExportedOnce ==
    PackageAnalyzed =>
        LET aliases == ReExportAliases(InitFile(anPath).body)
            own == ExtractReport(InitFile(anPath).body)
            ownDefs == {own.functions[i].name : i \in 1..Len(own.functions)}
                       \cup {own.classes[i].name : i \in 1..Len(own.classes)}
                       \cup {own.variables[i] : i \in 1..Len(own.variables)}
        IN \A i \in 1..Len(aliases) :
              (IsPublic(aliases[i].name) /\ IsPublic(ExportedName(aliases[i]))) =>
                  IF ExportedName(aliases[i]) \in ownDefs
                  THEN Occurrences(anResult.report.variables, ExportedName(aliases[i]))
                         = Occurrences(own.variables, ExportedName(aliases[i]))
                  ELSE Occurrences(anResult.report.variables, ExportedName(aliases[i])) = 1

\* C7 witness: two import statements of __init__.py re-export the same alias
\* foo, and the report holds foo once
C7_Witness ==
    /\ PackageAnalyzed
    /\ \E i, j \in 1..Len(InitFile(anPath).body) :
          /\ i # j
          /\ InitFile(anPath).body[i] = ImportFrom(<<Alias("foo", "")>>)
          /\ InitFile(anPath).body[j] = ImportFrom(<<Alias("impl", "foo")>>)
    /\ Occurrences(anResult.report.variables, "foo") = 1

\* every from-import line of the list is either unwrapped with at most 3 names,
\* or wrapped over exactly two lines that together list more than 3 names
ImportLinesWithinCap(ex) ==
    /\ \A i \in 1..Len(ex) :
          StartsWith(ex[i], "from ") =>
            IF Contains(ex[i], " import (")
            THEN /\ EndsWith(ex[i], ",")
                 /\ i + 1 <= Len(ex)
                 /\ StartsWith(ex[i + 1], WrapIndent)
                 /\ EndsWith(ex[i + 1], ")")
                 /\ i + 2 <= Len(ex) => ~StartsWith(ex[i + 2], WrapIndent)
                 /\ CountOf(ex[i], ",") + CountOf(ex[i + 1], ",") + 1 > 3
            ELSE CountOf(ex[i], ",") + 1 <= 3
    /\ \A i \in 1..Len(ex) :
          StartsWith(ex[i], WrapIndent) =>
            i > 1 /\ StartsWith(ex[i - 1], "from ") /\ Contains(ex[i - 1], " import (")

\* the items of a report list that some line starting with prefix(item) details
Detailed(ex, items, Prefix(_)) ==
    {k \in 1..Len(items) : \E i \in 1..Len(ex) : StartsWith(ex[i], Prefix(items[k]))}

\* no "obj = " line is followed by more than n "obj." method-call lines
MethodCallsWithinCap(ex, n) ==
    \A i \in 1..Len(ex) :
        StartsWith(ex[i], "obj = ") =>
            ~(/\ i + n + 1 <= Len(ex)
              /\ \A j \in (i + 1)..(i + n + 1) : StartsWith(ex[j], "obj."))

\* C9: whatever the number of functions, classes, methods, constants and
\* submodules in the report, an import line is unwrapped only when it lists at
\* most 3 names and is otherwise wrapped over exactly two lines; the module
\* path details at most 5 functions and 3 classes with at most 2 method calls
\* per class; the package path details at most 3 functions, 3 classes, 5
\* exported items and 5 submodules.
C9_GeneratorCaps ==
    gnPc = "done" =>
        /\ ImportLinesWithinCap(gnExamples)
        /\ "modules" \notin DOMAIN gnAnalysis =>
              /\ Cardinality(Detailed(gnExamples, gnAnalysis.functions,
                                      LAMBDA f : f.name \o "(")) <= 5
              /\ CountStarting(gnExamples, "obj = ") <= 3
              /\ MethodCallsWithinCap(gnExamples, 2)
        /\ "modules" \in DOMAIN gnAnalysis =>
              /\ Cardinality(Detailed(gnExamples, gnAnalysis.functions,
                                      LAMBDA f : gnName \o "." \o f.name \o "(")) <= 3
              /\ CountStarting(gnExamples, "obj = " \o gnName \o ".") <= 3
              /\ Cardinality({k \in 1..Len(gnAnalysis.variables) :
                                \/ HasLine(gnExamples, gnName \o "." \o gnAnalysis.variables[k])
                                \/ HasLine(gnExamples, gnName \o "." \o gnAnalysis.variables[k] \o "(...)")}) <= 5
              /\ CountStarting(gnExamples, "# " \o gnName \o ".") <= 5

\* C9 witness: a package report holding more of everything than the caps has
\* been rendered, with a wrapped import and every cap reached
C9_Witness ==
    /\ gnPc = "done"
    /\ "modules" \in DOMAIN gnAnalysis
    /\ Len(PublicItems(gnAnalysis.functions)) > 5
    /\ Len(PublicItems(gnAnalysis.classes)) > 3
    /\ Len(SelectSeq(gnAnalysis.variables, IsPublic)) > 5
    /\ Len(SelectSeq(gnAnalysis.modules, IsPublic)) > 5
    /\ \E i \in 1..Len(gnExamples) : StartsWith(gnExamples[i], WrapIndent)
    /\ CountStarting(gnExamples, "obj = " \o gnName \o ".") = 3
    /\ CountStarting(gnExamples, "# " \o gnName \o ".") = 5

WasInstalled(source) ==
    /\ IsRegistered(last.pre.registry, PathStem(source))
    /\ (PathStem(source) \o ".py") \in DOMAIN last.pre.site

\* C10: when the install command is given a source file whose module is
\* already installed by nopkg, the module is updated instead: the command
\* succeeds and site-packages holds the current contents of the source
C10_InstallUpdatesInstalled ==
    \A f \in DOMAIN srcFiles :
        (/\ last.op = "install"
         /\ last.args = <<f>>
         /\ srcFiles[f] # ""
         /\ WasInstalled(f))
        => (/\ last.ok
            /\ (PathStem(f) \o ".py") \in DOMAIN site
            /\ site[PathStem(f) \o ".py"] = srcFiles[f])

\* the registry line of a module
RegistryLine(name, source, mode) == name \o "|" \o source \o "|" \o mode

\* C11: the install command on a single file, when it succeeds: with -e the
\* module is installed in development mode under the source's stem
\* (nopkg_<stem>.pth names the source's directory, the source is not copied to
\* <stem>.py, the registry entry records mode 'dev'); without the flag the
\* file is copied and the entry records mode 'copy'
C11_DevFlagInstallsDevMode ==
    \A f \in DOMAIN srcFiles :
        (last.op = "install" /\ last.args = <<f>> /\ last.ok) =>
            IF last.dev
            THEN /\ ("nopkg_" \o PathStem(f) \o ".pth") \in DOMAIN site
                 /\ StartsWith(site["nopkg_" \o PathStem(f) \o ".pth"], ParentAbsolute(f))
                 /\ (PathStem(f) \o ".py") \in DOMAIN site
                        => (PathStem(f) \o ".py") \in DOMAIN last.pre.site
                 /\ registry = Append(last.pre.registry, RegistryLine(PathStem(f), f, "dev"))
            ELSE /\ (PathStem(f) \o ".py") \in DOMAIN site
                 /\ site[PathStem(f) \o ".py"] = srcFiles[f]
                 /\ registry = Append(last.pre.registry, RegistryLine(PathStem(f), f, "copy"))

\* C12: the generator has no error case: for every report with 'functions'
\* and 'classes' lists (module-shaped or package-shaped, lists of any length,
\* function descriptors with or without 'docstring', classes with empty
\* 'methods') generate_usage_examples returns a non-empty list of lines whose
\* first line is "import <name>"
C12_GeneratorReturnsImportFirst ==
    gnPc = "done" => (Len(gnExamples) >= 1 /\ gnExamples[1] = "import " \o gnName)

\* C12 witness: the report of the test (no 'docstring', empty 'methods') and a
\* package report holding a function descriptor without 'docstring' have been
\* rendered
C12_Witness ==
    /\ gnPc = "done"
    /\ \/ gnAnalysis = TestReport /\ HasLine(gnExamples, "obj = TestClass()")
       \/ /\ "modules" \in DOMAIN gnAnalysis
          /\ \E i \in 1..Len(gnAnalysis.functions) :
                "docstring" \notin DOMAIN gnAnalysis.functions[i]
    /\ Len(gnExamples) >= 1

\* the parameter name of a recorded parameter, and whether it has a default
ParamName(arg) == IF EndsWith(arg, "=...") THEN SubSeq(arg, 1, Len(arg) - 4) ELSE arg
HasDefault(arg) == EndsWith(arg, "=...")

\* the argument the call line shows for a parameter: name=<suggested value>
\* for a parameter with a default, the bare suggested value otherwise
CallArgument(arg) ==
    IF HasDefault(arg)
    THEN ParamName(arg) \o "=" \o SuggestArgValue(ParamName(arg))
    ELSE SuggestArgValue(ParamName(arg))

\* the signature line of func is followed by the call line showing its first
\* n parameters
SignatureThenCall(ex, func, n) ==
    \E i \in 1..(Len(ex) - 1) :
        /\ ex[i] = func.name \o "(" \o Join(", ", func.args) \o ")"
        /\ ex[i + 1] = func.name \o "("
                         \o Join(", ", [k \in 1..n |-> CallArgument(func.args[k])]) \o ")"

\* the functions the module path details that have a parameter
DetailedWithParams(analysis) ==
    SelectSeq(Take(PublicItems(analysis.functions), 5), LAMBDA f : f.args # <<>>)

\* C13 as stated: for every function detailed by the module path that has a
\* parameter, the signature line is followed by a call line with exactly one
\* argument per declared parameter, in order, name=<value> for a parameter
\* with a default and the bare value otherwise
C13_CallShowsEveryParameter ==
    (gnPc = "done" /\ "modules" \notin DOMAIN gnAnalysis) =>
        \A k \in 1..Len(DetailedWithParams(gnAnalysis)) :
            SignatureThenCall(gnExamples, DetailedWithParams(gnAnalysis)[k],
                              Len(DetailedWithParams(gnAnalysis)[k].args))

\* the smaller of two numbers
Min(a, b) == IF a < b THEN a ELSE b

\* C13 as amended: the call line shows one argument per declared parameter for
\* the first 5 parameters only, in order and in the same two forms
C13_CallShowsFirstFiveParameters ==
    (gnPc = "done" /\ "modules" \notin DOMAIN gnAnalysis) =>
        \A k \in 1..Len(DetailedWithParams(gnAnalysis)) :
            SignatureThenCall(gnExamples, DetailedWithParams(gnAnalysis)[k],
                              Min(5, Len(DetailedWithParams(gnAnalysis)[k].args)))

\* C13 witness: the module path has detailed a function of six parameters and
\* one of two parameters, the second with a default
C13_Witness ==
    /\ gnPc = "done" /\ "modules" \notin DOMAIN gnAnalysis
    /\ \E k \in 1..Len(DetailedWithParams(gnAnalysis)) :
          Len(DetailedWithParams(gnAnalysis)[k].args) = 6
    /\ HasLine(gnExamples, "func2(10, verbose=True)")
    /\ HasLine(gnExamples, "func4(10, 10, \"alice\", \"hello world\", 10)")


\* the declared positional parameters of a def, the ones that declare a default
\* (the last node.defaults of them) marked, a leading receiver left out
DeclaredParams(node) ==
    LET n == Len(node.args)
        marked == [j \in 1..n |->
                     IF j > n - node.defaults THEN node.args[j] \o "=..." ELSE node.args[j]]
    IN IF n > 0 /\ node.args[1] = "self" THEN Tail(marked) ELSE marked

\* C14: for every top-level public function, the recorded parameter list is
\* the declared positional parameters in order with only a leading receiver
\* removed, and '=...' marks exactly the recorded parameters that declare a
\* default.
C14_ParametersAsDeclared ==
    (AnalyzerReturned /\ anCall = "analyze_module" /\ IsValidSource(anPath)) =>
        LET top == SelectSeq(anPath.body,
                             LAMBDA n : n.type = "FunctionDef" /\ IsPublic(n.name))
        IN /\ Len(anResult.report.functions) = Len(top)
           /\ \A i \in 1..Len(top) :
                 anResult.report.functions[i].args = DeclaredParams(top[i])

\* C15: every public method directly in the body of a top-level public class
\* is recorded in declaration order with the shape of a function descriptor:
\* its parameters without the receiver, '=...' on each parameter that declares
\* a default, and its documentation.
C15_MethodsLikeFunctions ==
    (AnalyzerReturned /\ anCall = "analyze_module" /\ IsValidSource(anPath)) =>
        LET topClasses == SelectSeq(anPath.body,
                                    LAMBDA n : n.type = "ClassDef" /\ IsPublic(n.name))
        IN /\ Len(anResult.report.classes) = Len(topClasses)
           /\ \A i \in 1..Len(topClasses) :
                 LET declared == SelectSeq(topClasses[i].body,
                                           LAMBDA n : n.type = "FunctionDef" /\ IsPublic(n.name))
                     methods == anResult.report.classes[i].methods
                 IN /\ Len(methods) = Len(declared)
                    /\ \A j \in 1..Len(declared) :
                          /\ DOMAIN methods[j] = {"name", "args", "docstring"}
                          /\ methods[j].name = declared[j].name
                          /\ methods[j].args = DeclaredParams(declared[j])
                          /\ methods[j].docstring = declared[j].doc

\* C16: every successful install_module call hands the caller the analyzer's
\* report of what it installed: for a file the report of the source's public
\* surface, for a directory a report.
C16_InstallReturnsReportOfSource ==
    (last # NoCommand /\ last.op = "install_module" /\ last.ok) =>
        IF IsSourceDir(last.args[1])
        THEN last.results[1].analysis # None
        ELSE last.results[1].analysis
                 = Some(AnalyzeModule(SourceFile(ContentBody(srcFiles[last.args[1]]))).report)

\* the module name a command installs a single file under: the install command
\* hands its dev flag to install_module as the name
InstalledName(f) == IF last.op = "install" /\ last.dev THEN "True" ELSE PathStem(f)

\* C17: install_module for one existing source file whose target
\* <module_name>.py is already in site-packages fails and leaves site-packages
\* and the registry as they were; its message says 'already installed by
\* nopkg' exactly when the name is in the registry, 'not managed by nopkg'
\* otherwise.
C17_ExistingTargetRefused ==
    \A f \in DOMAIN srcFiles :
        (/\ last.op \in {"install", "install_module"}
         /\ Len(last.results) = 1 /\ last.args[1] = f
         /\ srcFiles[f] # ""
         /\ (InstalledName(f) \o ".py") \in DOMAIN last.pre.site) =>
            /\ ~last.results[1].success
            /\ site = last.pre.site
            /\ registry = last.pre.registry
            /\ Contains(last.results[1].message, "already installed by nopkg")
                   <=> IsRegistered(last.pre.registry, InstalledName(f))
            /\ Contains(last.results[1].message, "not managed by nopkg")
                   <=> ~IsRegistered(last.pre.registry, InstalledName(f))

\* C19: for a module name that has no entry in the registry, uninstall_module
\* deletes neither <name>.py nor nopkg_<name>.pth from site-packages and
\* returns failure.
C19_UninstallOnlyRegistered ==
    \A module_name \in ModuleNames :
        (/\ last.op = "uninstall_module" /\ last.args = <<module_name>>
         /\ ~IsRegistered(last.pre.registry, module_name)) =>
            /\ ~last.results[1].success
            /\ \A file \in {module_name \o ".py", "nopkg_" \o module_name \o ".pth"} :
                  file \in DOMAIN last.pre.site => file \in DOMAIN site

\* C20: the registry holds at most one entry per module name.
C20_OneEntryPerName ==
    \A i, j \in 1..Len(RegisteredModules(registry)) :
        RegisteredModules(registry)[i] = RegisteredModules(registry)[j] => i = j

\* C18: when both processes have returned, the registry holds an entry for
\* every module a process installed with success: no interleaving of the
\* steps of _register_module, with each other or with _unregister_module,
\* loses the entry of a completed install.
C18_NoLostEntry ==
    (\A p \in Procs : procs[p].pc = "done") =>
        \A p \in Procs :
            (procs[p].task.op = "install_module" /\ procs[p].success) =>
                IsRegistered(registry, procs[p].task.name)

\* the files of site-packages that belong to a module, with their contents
ModuleFiles(files, module_name) ==
    [f \in DOMAIN files \cap {module_name \o ".py", "nopkg_" \o module_name \o ".pth"}
       |-> files[f]]

\* the registry lines of a module
ModuleEntries(reg, module_name) ==
    SelectSeq(reg, LAMBDA line : StartsWith(line, module_name \o "|"))

\* C21: when update_module fails for a module that was installed and
\* registered, the module's file or .pth in site-packages and its registry
\* entry are the same as before the call.
C21_FailedUpdateChangesNothing ==
    \A module_name \in ModuleNames :
        (/\ last.op = "update_module" /\ last.args = <<module_name>>
         /\ ~last.ok
         /\ IsRegistered(last.pre.registry, module_name)
         /\ ModuleFiles(last.pre.site, module_name) # <<>>) =>
            /\ ModuleFiles(site, module_name) = ModuleFiles(last.pre.site, module_name)
            /\ ModuleEntries(registry, module_name)
                   = ModuleEntries(last.pre.registry, module_name)

\* C22: no rule is shadowed for its own keywords: a parameter named exactly a
\* keyword a rule lists receives that rule's literal.
C22_KeywordGetsOwnLiteral ==
    sgPc # "idle" =>
        \A r \in 1..Len(KeywordRules) :
            sgArg \in KeywordRules[r].words => sgFirst = KeywordRules[r].value

=========================================================================
